---- MODULE Spec2Model ----
(***************************************************************************)
(* Model of the gopkg2nix-incremental builder (src/builder/*.go).  One     *)
(* builder process is one invocation: it reads its derivation attributes,  *)
(* runs the compile sub-command and exits.  Store paths written by earlier *)
(* invocations are the read-only inputs of later ones.                     *)
(***************************************************************************)
EXTENDS Integers, Sequences, FiniteSets, TLC

VARIABLES
    store,   \* store path -> (file name -> decoded Package sidecar)
    inv,     \* the builder process: attributes read, effects, exit status
    res      \* one application of a function on its own (SpecResolve, ...)

vars == <<store, inv, res>>

(***************************************************************************)
(* Strings.  Go strings are byte sequences; the characters the model needs *)
(* are listed in ascending byte order.                                     *)
(***************************************************************************)
Alphabet == "-./0123456789=>_abcdefghijklmnopqrstuvwxyz"

CharAt(s, i) == SubSeq(s, i, i)

CharRank(c) == CHOOSE i \in 1..Len(Alphabet) : CharAt(Alphabet, i) = c

\* strings.Compare: -1, 0, +1 by lexicographic byte order.
RECURSIVE CompareFrom(_, _, _)
CompareFrom(a, b, i) ==
    IF i > Len(a) /\ i > Len(b) THEN 0
    ELSE IF i > Len(a) THEN -1
    ELSE IF i > Len(b) THEN 1
    ELSE IF CharAt(a, i) = CharAt(b, i) THEN CompareFrom(a, b, i + 1)
    ELSE IF CharRank(CharAt(a, i)) < CharRank(CharAt(b, i)) THEN -1 ELSE 1

Compare(a, b) == CompareFrom(a, b, 1)

\* Index of the last occurrence of the one-character string c in s, 0 if none.
RECURSIVE LastIndexFrom(_, _, _)
LastIndexFrom(s, c, i) ==
    IF i = 0 THEN 0
    ELSE IF CharAt(s, i) = c THEN i
    ELSE LastIndexFrom(s, c, i - 1)

LastIndex(s, c) == LastIndexFrom(s, c, Len(s))

\* filepath.Base on the slash-separated, already clean paths of the model.
Base(path) ==
    IF path = "" THEN "."
    ELSE SubSeq(path, LastIndex(path, "/") + 1, Len(path))

\* filepath.Dir on the same paths.
Dir(path) ==
    LET i == LastIndex(path, "/")
    IN  IF i = 0 THEN "."
        ELSE IF i = 1 THEN "/"
        ELSE SubSeq(path, 1, i - 1)

\* filepath.Ext: the suffix of the last element starting at its last dot.
Ext(path) ==
    LET b == Base(path)
        i == LastIndex(b, ".")
    IN  IF i = 0 THEN "" ELSE SubSeq(b, i, Len(b))

\* filepath.Join(dir, name).
Join(dir, name) == dir \o "/" \o name

Range(s) == {s[i] : i \in 1..Len(s)}

(***************************************************************************)
(* Go maps.  A map[string]string is a function on a finite set of strings; *)
(* indexing a missing key (or a nil map) yields the empty string.          *)
(***************************************************************************)
EmptyMap == [k \in {} |-> ""]

Lookup(m, k) == IF k \in DOMAIN m THEN m[k] ELSE ""

Delete(m, k) == [x \in DOMAIN m \ {k} |-> m[x]]

Put(m, k, v) == [x \in DOMAIN m \cup {k} |-> IF x = k THEN v ELSE m[x]]

\* maps.Copy(dst, src): every key of src is written to dst.
MapsCopy(dst, src) ==
    [k \in DOMAIN dst \cup DOMAIN src |-> IF k \in DOMAIN src THEN src[k] ELSE dst[k]]

\* An importMap attribute: absent from the attributes (a nil Go map) or a map.
NilMap == [isNil |-> TRUE, kv |-> EmptyMap]

MkMap(kv) == [isNil |-> FALSE, kv |-> kv]

(***************************************************************************)
(* package.go                                                              *)
(***************************************************************************)
MetaPackages == <<"std">>

NoError == [kind |-> "", Import |-> "", Parent |-> ""]

\* The two fields in the wrong positions.
ImportErrorSwapped(import, parent) ==
    [kind |-> "ImportError", Import |-> parent, Parent |-> import]

ImportError(import, parent) ==
    [kind |-> "ImportError", Import |-> import, Parent |-> parent]

OtherError(kind) == [kind |-> kind, Import |-> "", Parent |-> ""]

FilterInternalPackages(importPath) == importPath \in {"runtime/cgo", "unsafe"}

Import(storePath, importPath) ==
    [StorePath |-> storePath, ImportPath |-> importPath]

\* slices.SortFunc by strings.Compare of the import paths.
SortImports(imports) ==
    SortSeq(imports, LAMBDA x, y : Compare(x.ImportPath, y.ImportPath) < 0)

\* slices.Sorted(maps.Keys(set)): the keys in ascending order.
RECURSIVE SortedKeys(_)
SortedKeys(S) ==
    IF S = {} THEN <<>>
    ELSE LET m == CHOOSE x \in S : \A y \in S : Compare(x, y) <= 0
         IN  <<m>> \o SortedKeys(S \ {m})

\* The sub-package written without the check for an existing binding.
AddSubPackageOverwrite(pkgs, subPkg) ==
    Put(pkgs, subPkg.ImportPath, subPkg.StorePath)

\* One iteration of the loop over pkg.SubPackages: an import path already
\* in pkgs keeps its binding.
AddSubPackage(pkgs, subPkg) ==
    IF subPkg.ImportPath \in DOMAIN pkgs THEN pkgs
    ELSE Put(pkgs, subPkg.ImportPath, subPkg.StorePath)

RECURSIVE AddSubPackages(_, _, _)
AddSubPackages(pkgs, subs, i) ==
    IF i > Len(subs) THEN pkgs
    ELSE AddSubPackages(AddSubPackage(pkgs, subs[i]), subs, i + 1)

\* The merge of the meta package's ImportMap into the caller's importMap.
MergeImportMap(importMap, metaMap) ==
    IF ~importMap.isNil THEN MkMap(MapsCopy(importMap.kv, metaMap))
    ELSE importMap

\* ResolveMetaPackages(pkgs, importMap); fs maps the path of each readable
\* meta package file to its content.
RECURSIVE ResolveFrom(_, _, _, _)
ResolveFrom(pkgs, importMap, fs, i) ==
    IF i > Len(MetaPackages)
    THEN [pkgs |-> pkgs, importMap |-> importMap, err |-> NoError]
    ELSE
      LET importPath == MetaPackages[i]
          storePath  == Lookup(pkgs, importPath)
          deleted    == Delete(pkgs, importPath)
          file       == Join(storePath, Base(importPath) \o ".json")
      IN  IF storePath = "" THEN ResolveFrom(pkgs, importMap, fs, i + 1)
          ELSE IF file \notin DOMAIN fs
          THEN [pkgs |-> deleted, importMap |-> importMap,
                err |-> OtherError("failed to read meta package")]
          ELSE IF fs[file].Malformed
          THEN [pkgs |-> deleted, importMap |-> importMap,
                err |-> OtherError("failed to read std")]
          ELSE ResolveFrom(
                   AddSubPackages(deleted, fs[file].SubPackages, 1),
                   MergeImportMap(importMap, fs[file].ImportMap),
                   fs, i + 1)

ResolveMetaPackages(pkgs, importMap, fs) == ResolveFrom(pkgs, importMap, fs, 1)

(***************************************************************************)
(* The source files visible to a builder: for each path, whether the build *)
(* constraints enable it on the host platform (Context.MatchFile), whether *)
(* its import block parses, and the import paths it declares in order.     *)
(***************************************************************************)
SrcFile(enabled, parses, imports) ==
    [enabled |-> enabled, parses |-> parses, imports |-> imports]

SourceTree ==
    "/src/p/w.go"  :> SrcFile(TRUE, TRUE, <<"unsafe", "runtime/cgo">>) @@
    "/src/p/x.go"  :> SrcFile(TRUE, TRUE, <<"internal/poll", "a">>) @@
    "/src/q/y.go"  :> SrcFile(TRUE, TRUE, <<"a", "unsafe">>) @@
    "/src/p/f.s"   :> SrcFile(TRUE, TRUE, <<>>) @@
    "/src/q/f.s"   :> SrcFile(TRUE, TRUE, <<>>) @@
    "/src/p/h.h"   :> SrcFile(TRUE, TRUE, <<>>) @@
    "/src/p/impl_linux_amd64.h" :> SrcFile(TRUE, TRUE, <<>>) @@
    "/src/p/impl_linux.h"       :> SrcFile(TRUE, TRUE, <<>>) @@
    "/src/p/impl_amd64.h"       :> SrcFile(TRUE, TRUE, <<>>) @@
    "/src/q/impl_linux.h"       :> SrcFile(TRUE, TRUE, <<>>) @@
    "/src/p/n.go"  :> SrcFile(FALSE, TRUE, <<"a">>) @@
    "/src/p/c.c"   :> SrcFile(TRUE, TRUE, <<>>) @@
    "/src/p/m.c"   :> SrcFile(FALSE, TRUE, <<>>)

\* listFileImports(path).
listFileImports(path) ==
    IF SourceTree[path].parses
    THEN [imports |-> SourceTree[path].imports, err |-> NoError]
    ELSE [imports |-> <<>>, err |-> OtherError("parse input")]

\* One iteration of the inner loop of ScanImports on the import importPath
\* of the file path; st is (imports, rewrites, found, err).
ScanOne(st, path, importPath, pkgs, importMap) ==
    IF importPath \in st.found THEN st
    ELSE
      LET found    == st.found \cup {importPath}
          truePath == Lookup(importMap.kv, importPath)
          rewrites == IF truePath # ""
                      THEN Append(st.rewrites, Import(truePath, importPath))
                      ELSE st.rewrites
          resolved == IF truePath # "" THEN truePath ELSE importPath
      IN  IF FilterInternalPackages(importPath)
          THEN [st EXCEPT !.found = found]
          ELSE IF resolved \in DOMAIN pkgs
          THEN [st EXCEPT !.found = found,
                          !.rewrites = rewrites,
                          !.imports = Append(@, Import(pkgs[resolved], resolved))]
          ELSE [st EXCEPT !.found = found,
                          !.rewrites = rewrites,
                          !.err = ImportError(resolved, path)]

RECURSIVE ScanFile(_, _, _, _, _, _)
ScanFile(st, path, fileImports, j, pkgs, importMap) ==
    IF j > Len(fileImports) \/ st.err # NoError THEN st
    ELSE ScanFile(ScanOne(st, path, fileImports[j], pkgs, importMap),
                  path, fileImports, j + 1, pkgs, importMap)

RECURSIVE ScanFiles(_, _, _, _, _)
ScanFiles(st, srcs, i, pkgs, importMap) ==
    IF i > Len(srcs) \/ st.err # NoError THEN st
    ELSE LET listed == listFileImports(srcs[i])
         IN  IF listed.err # NoError THEN [st EXCEPT !.err = listed.err]
             ELSE ScanFiles(ScanFile(st, srcs[i], listed.imports, 1, pkgs, importMap),
                            srcs, i + 1, pkgs, importMap)

\* ScanImports(srcs, pkgs, importMap): on error both lists are nil.
ScanImports(srcs, pkgs, importMap) ==
    LET st == ScanFiles([imports |-> <<>>, rewrites |-> <<>>, found |-> {},
                         err |-> NoError], srcs, 1, pkgs, importMap)
    IN  IF st.err # NoError
        THEN [imports |-> <<>>, rewrites |-> <<>>, err |-> st.err]
        ELSE [imports |-> SortImports(st.imports),
              rewrites |-> SortImports(st.rewrites),
              err |-> NoError]

\* A decoded Package sidecar (the ImportPath field is not in the file).
Sidecar(imports, deps) == [Imports |-> imports, Deps |-> deps]

\* Package.StorePath(dir): the sidecar file of the package importPath.
MetadataFile(dir, importPath) == Join(dir, Base(importPath) \o ".json")

\* LoadMetadata[Package](dir, importPath) against the files of fs.
LoadMetadata(fs, dir, importPath) ==
    LET file == MetadataFile(dir, importPath)
    IN  IF file \in DOMAIN fs
        THEN [pkg |-> [ImportPath |-> importPath,
                       Imports |-> fs[file].Imports, Deps |-> fs[file].Deps],
              err |-> NoError]
        ELSE [pkg |-> [ImportPath |-> importPath, Imports |-> <<>>, Deps |-> <<>>],
              err |-> OtherError("failed to read package metadata")]

(***************************************************************************)
(* context.go and the toolchain handle                                     *)
(***************************************************************************)
GOOS == "linux"

GOARCH == "amd64"

HostPlatform == GOOS \o "_" \o GOARCH

\* The handle LoadSDK returns for the sdk attribute of the derivation.
SDK == [Path |-> "/nix/store/go/share/go", Version |-> "1.23.5",
        CompatVersion |-> "go1.23"]

SDKInclude == Join(Join(SDK.Path, "pkg"), "include")

\* GoSDK.RunTool: the binary of a tool of the SDK.
ToolBin(tool) ==
    Join(Join(Join(Join(SDK.Path, "pkg"), "tool"), HostPlatform), tool)

\* The directory os.MkdirTemp creates on the first BuildDir() call.
BuildDir == "/build/builder0"

\* runtime.NumCPU() of the build machine.
NumCPU == 2

Digits == "0123456789"

IsDigit(c) == \E i \in 1..10 : CharAt(Digits, i) = c

DropLastDigit(s) == SubSeq(s, 1, Len(s) - 1)

DigitVal(c) == (CHOOSE i \in 1..10 : CharAt(Digits, i) = c) - 1

MaxInt32 == 2147483647

\* The value of a digit string, or -1 when it exceeds limit.
RECURSIVE DigitsValue(_, _, _, _)
DigitsValue(s, i, acc, limit) ==
    IF i > Len(s) THEN acc
    ELSE LET d == DigitVal(CharAt(s, i))
         IN  IF acc > (limit - d) \div 10 THEN -1
             ELSE DigitsValue(s, i + 1, acc * 10 + d, limit)

\* strconv.ParseInt(s, 10, 32): an optional sign, then decimal digits only,
\* and a value in -2^31 .. 2^31-1.
ParseInt(s) ==
    LET signed == Len(s) > 0 /\ CharAt(s, 1) \in {"+", "-"}
        neg    == signed /\ CharAt(s, 1) = "-"
        body   == IF signed THEN SubSeq(s, 2, Len(s)) ELSE s
        syntax == Len(body) > 0 /\ \A i \in 1..Len(body) : IsDigit(CharAt(body, i))
        mag    == DigitsValue(body, 1, 0, MaxInt32)
        \* -2^31 is the one value whose magnitude is not an int32
        minInt == neg /\ DigitsValue(DropLastDigit(body), 1, 0, MaxInt32) = 214748364
                      /\ CharAt(body, Len(body)) = "8"
    IN  IF ~syntax THEN [val |-> 0, ok |-> FALSE]
        ELSE IF minInt THEN [val |-> (0 - MaxInt32) - 1, ok |-> TRUE]
        ELSE IF mag = -1 THEN [val |-> 0, ok |-> FALSE]
        ELSE [val |-> IF neg THEN 0 - mag ELSE mag, ok |-> TRUE]

\* BuildParallelism() without the case for "0".
BuildParallelismParsed(cores) ==
    IF cores = "" THEN [val |-> 1, fatal |-> FALSE]
    ELSE IF ParseInt(cores).ok THEN [val |-> ParseInt(cores).val, fatal |-> FALSE]
    ELSE [val |-> 0, fatal |-> TRUE]

\* BuildParallelism() for the value cores of NIX_BUILD_CORES ("" when unset).
BuildParallelism(cores) ==
    IF cores = "" THEN [val |-> 1, fatal |-> FALSE]
    ELSE IF cores = "0" THEN [val |-> NumCPU, fatal |-> FALSE]
    ELSE LET parsed == ParseInt(cores)
         IN  IF parsed.ok THEN [val |-> parsed.val, fatal |-> FALSE]
             ELSE [val |-> 0, fatal |-> TRUE]

\* fmt.Sprint of an int.
RECURSIVE SprintNat(_)
SprintNat(n) ==
    IF n < 10 THEN CharAt(Digits, n + 1)
    ELSE SprintNat(n \div 10) \o CharAt(Digits, (n % 10) + 1)

Sprint(n) == IF n < 0 THEN "-" \o SprintNat(0 - n) ELSE SprintNat(n)

HasPrefix(s, prefix) ==
    Len(s) >= Len(prefix) /\ SubSeq(s, 1, Len(prefix)) = prefix

HasSuffix(s, suffix) ==
    Len(s) >= Len(suffix) /\ SubSeq(s, Len(s) - Len(suffix) + 1, Len(s)) = suffix

\* s without its last n characters.
DropLast(s, n) == SubSeq(s, 1, Len(s) - n)

(***************************************************************************)
(* compile.go                                                              *)
(***************************************************************************)
SortStrings(seq) == SortSeq(seq, LAMBDA x, y : Compare(x, y) < 0)

\* sortSrcs without the MatchFile test.
sortSrcsUnmatched(srcs) ==
    [goSrcs |-> SortStrings(SelectSeq(srcs, LAMBDA src : Ext(src) = ".go")),
     hSrcs  |-> SortStrings(SelectSeq(srcs, LAMBDA src : Ext(src) = ".h")),
     sSrcs  |-> SortStrings(SelectSeq(srcs, LAMBDA src : Ext(src) = ".s")),
     fatal  |-> \E i \in 1..Len(srcs) : Ext(srcs[i]) \notin {".go", ".h", ".s"}]

\* sortSrcs without the three slices.Sort calls.
sortSrcsInOrder(srcs) ==
    [goSrcs |-> SelectSeq(srcs, LAMBDA src : SourceTree[src].enabled /\ Ext(src) = ".go"),
     hSrcs  |-> SelectSeq(srcs, LAMBDA src : SourceTree[src].enabled /\ Ext(src) = ".h"),
     sSrcs  |-> SelectSeq(srcs, LAMBDA src : SourceTree[src].enabled /\ Ext(src) = ".s"),
     fatal  |-> \E i \in 1..Len(srcs) :
                   SourceTree[srcs[i]].enabled /\ Ext(srcs[i]) \notin {".go", ".h", ".s"}]

\* sortSrcs(srcs): the enabled sources by extension, each list sorted; an
\* enabled source with another extension is fatal.
sortSrcs(srcs) ==
    LET enabled == SelectSeq(srcs, LAMBDA src : SourceTree[src].enabled)
        withExt(e) == SelectSeq(enabled, LAMBDA src : Ext(src) = e)
    IN  [goSrcs |-> SortStrings(withExt(".go")),
         hSrcs  |-> SortStrings(withExt(".h")),
         sSrcs  |-> SortStrings(withExt(".s")),
         fatal  |-> \E i \in 1..Len(enabled) : Ext(enabled[i]) \notin {".go", ".h", ".s"}]

\* The lines compileImportCfg prints for the rewrites.
ImportMapLine(pkg) == "importmap " \o pkg.ImportPath \o "=" \o pkg.StorePath

\* The lines compileImportCfg prints for the imports.
PackageFileLine(pkg, ext) ==
    "packagefile " \o pkg.ImportPath \o "=" \o pkg.StorePath \o "/"
        \o Base(pkg.ImportPath) \o ext

MapSeq(seq, Op(_)) == [i \in 1..Len(seq) |-> Op(seq[i])]

\* What compileImportCfg returns when resolution or the scan fails.
ImportCfgFailed(resolved, err) ==
    [cfgPath |-> "", written |-> FALSE, lines |-> <<>>,
     imports |-> <<>>, rewrites |-> <<>>, err |-> err,
     pkgs |-> resolved.pkgs, importMap |-> resolved.importMap]

\* compileImportCfg printing a packagefile line for every binding of the
\* resolved table.
ImportCfgScannedAll(resolved, scan) ==
    IF scan.err # NoError THEN ImportCfgFailed(resolved, scan.err)
    ELSE [cfgPath |-> Join(BuildDir, "importcfg"),
          written |-> TRUE,
          lines   |-> MapSeq(scan.rewrites, ImportMapLine)
                        \o MapSeq(SortedKeys(DOMAIN resolved.pkgs),
                                  LAMBDA q : PackageFileLine(Import(resolved.pkgs[q], q),
                                                             ".x")),
          imports |-> scan.imports, rewrites |-> scan.rewrites, err |-> NoError,
          pkgs |-> resolved.pkgs, importMap |-> resolved.importMap]

\* The file compileImportCfg writes from the result of the scan.
ImportCfgScanned(resolved, scan) ==
    IF scan.err # NoError THEN ImportCfgFailed(resolved, scan.err)
    ELSE [cfgPath |-> Join(BuildDir, "importcfg"),
          written |-> TRUE,
          lines   |-> MapSeq(scan.rewrites, ImportMapLine)
                        \o MapSeq(scan.imports, LAMBDA pkg : PackageFileLine(pkg, ".x")),
          imports |-> scan.imports, rewrites |-> scan.rewrites, err |-> NoError,
          pkgs |-> resolved.pkgs, importMap |-> resolved.importMap]

\* compileImportCfg after ResolveMetaPackages returned resolved.
ImportCfgResolved(srcs, resolved) ==
    IF resolved.err # NoError THEN ImportCfgFailed(resolved, resolved.err)
    ELSE ImportCfgScanned(resolved,
                          ScanImports(srcs, resolved.pkgs, resolved.importMap))

\* compileImportCfg(srcs, deps, importMap): the import configuration file
\* and the imports kept for the metadata.
compileImportCfg(srcs, deps, importMap, metaFiles) ==
    ImportCfgResolved(srcs, ResolveMetaPackages(deps, importMap, metaFiles))

\* packageTrimPath(srcs, importPath, out).
RECURSIVE TrimPathFrom(_, _, _, _)
TrimPathFrom(srcs, importPath, i, seen) ==
    IF i > Len(srcs) THEN ""
    ELSE IF Dir(srcs[i]) \in seen THEN TrimPathFrom(srcs, importPath, i + 1, seen)
    ELSE Dir(srcs[i]) \o "=>" \o importPath \o ";"
           \o TrimPathFrom(srcs, importPath, i + 1, seen \cup {Dir(srcs[i])})

packageTrimPath(srcs, importPath, out) ==
    TrimPathFrom(srcs, importPath, 1, {}) \o out \o "=>"

\* findIncludes(sdkInclude, hSrcs).
findIncludes(sdkInclude, hSrcs) ==
    SortedKeys({BuildDir, sdkInclude}
               \cup {Dir(hSrcs[i]) : i \in {j \in 1..Len(hSrcs) :
                                              ~HasPrefix(Dir(hSrcs[j]), sdkInclude)}})

\* The alias rules with the architecture suffix tried first.
ArchHeaderAliasArchFirst(path) ==
    IF HasSuffix(Base(path), "_" \o GOARCH \o ".h")
    THEN DropLast(Base(path), Len("_" \o GOARCH \o ".h")) \o "_GOARCH.h"
    ELSE IF HasSuffix(Base(path), "_" \o GOOS \o ".h")
    THEN DropLast(Base(path), Len("_" \o GOOS \o ".h")) \o "_GOOS.h"
    ELSE ""

\* The alias symlinkArchHeaders gives to the header path, "" for none.
ArchHeaderAlias(path) ==
    LET base           == Base(path)
        platformSuffix == "_" \o HostPlatform \o ".h"
        goosSuffix     == "_" \o GOOS \o ".h"
        goarchSuffix   == "_" \o GOARCH \o ".h"
    IN  IF HasSuffix(base, platformSuffix)
        THEN DropLast(base, Len(platformSuffix)) \o "_GOOS_GOARCH.h"
        ELSE IF HasSuffix(base, goosSuffix)
        THEN DropLast(base, Len(goosSuffix)) \o "_GOOS.h"
        ELSE IF HasSuffix(base, goarchSuffix)
        THEN DropLast(base, Len(goarchSuffix)) \o "_GOARCH.h"
        ELSE ""

\* symlinkArchHeaders(hFiles) on the build directory holding the names in
\* present: the links created (name -> target); os.Symlink fails on a name
\* that exists.
RECURSIVE SymlinkFrom(_, _, _, _)
SymlinkFrom(hFiles, i, present, links) ==
    IF i > Len(hFiles) THEN [links |-> links, err |-> NoError]
    ELSE LET newBase == ArchHeaderAlias(hFiles[i])
         IN  IF newBase = "" THEN SymlinkFrom(hFiles, i + 1, present, links)
             ELSE IF newBase \in present \cup DOMAIN links
             THEN [links |-> links, err |-> OtherError("symlink")]
             ELSE SymlinkFrom(hFiles, i + 1, present, Put(links, newBase, hFiles[i]))

symlinkArchHeaders(hFiles, present) == SymlinkFrom(hFiles, 1, present, EmptyMap)

\* The list of hasForwardDecl with one package left out.
hasForwardDeclShort(importPath) ==
    importPath \in {"bytes", "net", "os", "runtime/metrics",
                    "runtime/pprof", "runtime/trace", "sync", "syscall", "time"}

\* hasForwardDecl(importPath).
hasForwardDecl(importPath) ==
    importPath \in {"bytes", "internal/poll", "net", "os", "runtime/metrics",
                    "runtime/pprof", "runtime/trace", "sync", "syscall", "time"}

ToolCall(tool, args, env) == [tool |-> tool, args |-> args, env |-> env, ok |-> TRUE]

RECURSIVE FlagEach(_, _, _)
FlagEach(flag, values, i) ==
    IF i > Len(values) THEN <<>>
    ELSE <<flag, values[i]>> \o FlagEach(flag, values, i + 1)

\* The command AssembleSources runs.
AssembleCall(importPath, trimPath, includes, srcs, out, extraArgs) ==
    ToolCall("asm",
             <<ToolBin("asm")>> \o extraArgs
               \o <<"-p", importPath, "-trimpath", trimPath>>
               \o FlagEach("-I", includes, 1)
               \o <<"-D", "GOOS_" \o GOOS, "-D", "GOARCH_" \o GOARCH, "-o", out>>
               \o srcs,
             <<"CGO_ENABLED=0">>)

\* The command appendArchive runs.
PackCall(archive, objs) ==
    ToolCall("pack", <<ToolBin("pack"), "r", archive>> \o objs, <<>>)

\* The object AssembleSources writes for one assembly source.
AsmObject(src) == Join(BuildDir, DropLast(Base(src), Len(".s")) \o ".o")

\* cmd.Run() over the commands of one invocation in order: the command
\* number failAt exits non-zero and ends the run (0: every command succeeds).
RunCalls(plan, failAt) ==
    IF failAt = 0 \/ failAt > Len(plan) THEN plan
    ELSE [i \in 1..failAt |-> IF i = failAt THEN [plan[i] EXCEPT !.ok = FALSE]
                              ELSE plan[i]]

AllOk(calls) == \A i \in 1..Len(calls) : calls[i].ok

\* The arguments CompilePackage appends for the assembly sources, or the
\* -complete flag.
AsmOrCompleteArgs(importPath, sSrcs) ==
    IF Len(sSrcs) > 0
    THEN <<"-symabis", Join(BuildDir, "symabis"), "-asmhdr", Join(BuildDir, "go_asm.h")>>
    ELSE IF ~hasForwardDecl(importPath) THEN <<"-complete">>
    ELSE <<>>

\* What an invocation of CompilePackage leaves behind: the error it returns,
\* the fields of the Compilation c it filled, the import configuration, the
\* header links and the commands it ran.
CompileResult(c, err, cfgOut, links, run) ==
    [err |-> err, sorted |-> c.sorted,
     pkgs |-> c.pkgs, importMap |-> c.importMap,
     cfgWritten |-> cfgOut.written, cfgLines |-> cfgOut.lines,
     imports |-> cfgOut.imports, rewrites |-> cfgOut.rewrites,
     touched |-> IF cfgOut.written /\ c.sorted.sSrcs # <<>>
                 THEN {Join(BuildDir, "go_asm.h")} ELSE {},
     links |-> links, calls |-> run]

NoCfg == [written |-> FALSE, lines |-> <<>>, imports |-> <<>>, rewrites |-> <<>>]

\* The compiler command CompilePackage builds; par is BuildParallelism().
CompilerCall(c, par) ==
    ToolCall("compile",
             <<ToolBin("compile")>> \o c.attrs.CompileFlags
               \o <<"-o", c.exportData, "-linkobj", c.obj, "-trimpath", c.trimPath,
                    "-p", c.attrs.PackagePath, "-lang", SDK.CompatVersion>>
               \o AsmOrCompleteArgs(c.attrs.PackagePath, c.sorted.sSrcs)
               \o (IF c.attrs.EmbedCfg THEN <<"-embedcfg", Join(BuildDir, "embedcfg")>>
                   ELSE <<>>)
               \o <<"-c", Sprint(par.val), "-nolocalimports",
                    "-importcfg", c.cfg.cfgPath, "-pack", "--">>
               \o c.sorted.goSrcs,
             <<"CGO_ENABLED=0">>)

\* The commands after the compiler: one assembler run per assembly source,
\* then appendArchive when there was one.
AssembleEachCalls(c) ==
    [i \in 1..Len(c.sorted.sSrcs) |->
        AssembleCall(c.attrs.PackagePath, c.trimPath, c.includes,
                     <<c.sorted.sSrcs[i]>>, AsmObject(c.sorted.sSrcs[i]), <<>>)]
    \o (IF Len(c.sorted.sSrcs) > 0
        THEN <<PackCall(c.obj, MapSeq(c.sorted.sSrcs, AsmObject))>>
        ELSE <<>>)

\* CompilePackage once its commands ran as calls.
CompileRan(c, calls) ==
    CompileResult(c, IF AllOk(calls) THEN NoError ELSE OtherError("tool failed"),
                  c.cfg, c.links, calls)

\* CompilePackage from the "-c" argument on.
CompileParallel(c, par) ==
    IF par.fatal
    THEN CompileResult(c, OtherError("failed to parse NIX_BUILD_CORES"),
                       c.cfg, c.links, c.pre)
    ELSE CompileRan(c, RunCalls(c.pre \o <<CompilerCall(c, par)>>
                                  \o AssembleEachCalls(c), c.failAt))

\* CompilePackage after the branch on the assembly sources.
CompileAssembled(c) ==
    IF ~AllOk(c.pre)
    THEN CompileResult(c, OtherError("failed to assemble sources"),
                       c.cfg, c.links, c.pre)
    ELSE CompileParallel(c, BuildParallelism(c.cores))

\* The branch for assembly sources after symlinkArchHeaders returned.
CompileSymlinked(c, symlinks) ==
    IF symlinks.err # NoError
    THEN CompileResult(c, symlinks.err, c.cfg, symlinks.links, <<>>)
    ELSE CompileAssembled(
            [c EXCEPT !.links = symlinks.links,
                      !.pre = RunCalls(
                          <<AssembleCall(c.attrs.PackagePath, c.trimPath, c.includes,
                                         c.sorted.sSrcs, Join(BuildDir, "symabis"),
                                         <<"-gensymabis">>)>>,
                          c.failAt)])

\* CompilePackage once c.trimPath is set.
CompileTrimmed(c) ==
    IF Len(c.sorted.sSrcs) > 0
    THEN CompileSymlinked(
            [c EXCEPT !.includes = findIncludes(SDKInclude, c.sorted.hSrcs)],
            symlinkArchHeaders(c.sorted.hSrcs, {"importcfg", "go_asm.h"}))
    ELSE CompileAssembled(c)

\* CompilePackage after compileImportCfg returned cfg.
CompileConfigured(c, cfg) ==
    IF cfg.err # NoError
    THEN CompileResult([c EXCEPT !.pkgs = cfg.pkgs, !.importMap = cfg.importMap],
                       cfg.err, NoCfg, EmptyMap, <<>>)
    ELSE CompileTrimmed(
            [c EXCEPT !.pkgs = cfg.pkgs, !.importMap = cfg.importMap, !.cfg = cfg,
                      !.trimPath =
                          packageTrimPath(c.attrs.Srcs, c.attrs.PackagePath, Dir(c.obj))
                            \o (IF Len(c.sorted.sSrcs) > 0
                                THEN ";" \o BuildDir \o "=>" ELSE "")])

\* CompilePackage after sortSrcs filled c.sorted.
CompileSorted(c) ==
    IF c.sorted.fatal
    THEN CompileResult(c, OtherError("source was neither a .go, .h, or .s file"),
                       NoCfg, EmptyMap, <<>>)
    ELSE CompileConfigured(c, compileImportCfg(c.sorted.goSrcs, c.attrs.Imports,
                                               c.attrs.ImportMap, c.metaFiles))

\* Compilation.CompilePackage(obj, exportData, extraArgs) for the attributes
\* attrs; cores is NIX_BUILD_CORES and failAt the command that fails.
CompilePackage(attrs, obj, exportData, metaFiles, cores, failAt) ==
    CompileSorted([attrs |-> attrs, obj |-> obj, exportData |-> exportData,
                   metaFiles |-> metaFiles, cores |-> cores, failAt |-> failAt,
                   sorted |-> sortSrcs(attrs.Srcs),
                   pkgs |-> attrs.Imports, importMap |-> attrs.ImportMap,
                   cfg |-> NoCfg, trimPath |-> "", includes |-> <<>>,
                   links |-> EmptyMap, pre |-> <<>>])

\* The loop of Deps() without the inner loop over pkg.Deps.
AddDepsDirectOnly(deps, dep, pkg) == deps \cup {dep.ImportPath}

\* The loop of Deps() without the import itself.
AddDepsSubOnly(deps, dep, pkg) == deps \cup Range(pkg.Deps)

\* One iteration of the loop of Deps(): the import and the Deps of its
\* sidecar pkg join the set.
AddDeps(deps, dep, pkg) == deps \cup {dep.ImportPath} \cup Range(pkg.Deps)

\* Compilation.Deps(): the direct imports and the sorted union of them with
\* the Deps of each import's sidecar.
RECURSIVE DepsFrom(_, _, _, _)
DepsFrom(imports, fs, i, deps) ==
    IF i > Len(imports)
    THEN [imports |-> MapSeq(imports, LAMBDA dep : dep.ImportPath),
          deps |-> SortedKeys(deps), err |-> NoError]
    ELSE LET dep    == imports[i]
             loaded == LoadMetadata(fs, dep.StorePath, dep.ImportPath)
         IN  IF loaded.err # NoError
             THEN [imports |-> <<>>, deps |-> <<>>, err |-> loaded.err]
             ELSE DepsFrom(imports, fs, i + 1, AddDeps(deps, dep, loaded.pkg))

Deps(imports, fs) == DepsFrom(imports, fs, 1, {})

(***************************************************************************)
(* The derivations default.nix builds: the attributes and output paths the *)
(* sandbox hands to the builder.                                           *)
(***************************************************************************)
\* builtins.replaceStrings [ "/" ] [ "_" ] packagePath, the derivation name.
RECURSIVE DrvNameFrom(_, _)
DrvNameFrom(packagePath, i) ==
    IF i > Len(packagePath) THEN ""
    ELSE (IF CharAt(packagePath, i) = "/" THEN "_" ELSE CharAt(packagePath, i))
           \o DrvNameFrom(packagePath, i + 1)

DrvName(packagePath) == DrvNameFrom(packagePath, 1)

\* The "export" and "lib" outputs of the derivation of a package.
\* One export output shared by every derivation.
ExportDirShared(packagePath) == "/nix/store/a-export"

ExportDir(packagePath) == "/nix/store/" \o DrvName(packagePath) \o "-export"

LibDir(packagePath) == "/nix/store/" \o DrvName(packagePath) \o "-lib"

\* The packages the model builds, the source lists their derivations name,
\* and the importMap, compileFlags and embedCfg attributes they carry.
MaxSrcs == 2

PackagePaths == {"a", "internal/poll", "unsafe"}

\* The files the derivations of the model list as srcs.
SrcFiles == {"/src/p/w.go", "/src/p/x.go", "/src/q/y.go", "/src/p/f.s", "/src/q/f.s"}

SrcLists ==
    {srcs \in UNION {[1..n -> SrcFiles] : n \in 1..MaxSrcs} :
        \A i, j \in 1..Len(srcs) : i # j => srcs[i] # srcs[j]}

Aliases == {"a"}

Targets == {"internal/poll", "unsafe"}

PartialMaps(keys, values) == UNION {[d -> values] : d \in SUBSET keys}

ImportMaps == {NilMap} \cup {MkMap(kv) : kv \in PartialMaps(Aliases, Targets)}

CompileFlagLists == {<<"-std">>}

EmbedCfgs == {FALSE}

CoreSettings == {""}

\* A meta package file as json decodes it.
MetaPackage(subPackages, importMap) ==
    [SubPackages |-> subPackages, ImportMap |-> importMap, Malformed |-> FALSE]

StdExport == "/nix/store/std-obj-export"

StdFile == Join(StdExport, "std.json")

\* The sidecar files of the store and the packages that own them.
Built(fs, packagePath) == MetadataFile(ExportDir(packagePath), packagePath) \in DOMAIN fs

BuiltPackages(fs) == {q \in PackagePaths : Built(fs, q)}

\* imports = listToAttrs (map (dep: { name = dep.packagePath;
\* value = dep.export; }) (imports ++ optional (!noStd) std)).
ImportsAttr(deps, withStd) ==
    [q \in deps \cup (IF withStd THEN {"std"} ELSE {}) |->
        IF q = "std" THEN StdExport ELSE ExportDir(q)]

\* What the std output can hold when a builder reads it: no std.json, or one
\* that lists the packages built so far with one of the import maps.
MetaImportMaps == {"a" :> "internal/poll"}

StdOutputs(fs) ==
    {EmptyMap} \cup
    {StdFile :> MetaPackage(
                    MapSeq(SortedKeys(BuiltPackages(fs)),
                           LAMBDA q : Import(ExportDir(q), q)), m) :
        m \in MetaImportMaps}

(***************************************************************************)
(* The builder process                                                     *)
(***************************************************************************)
NoSidecar == [written |-> FALSE, file |-> "", Imports |-> <<>>, Deps |-> <<>>]

\* compile writing the sidecar whatever Deps returned.
compileSavedAnyway(attrs, built, deps) ==
    [exit |-> 0, err |-> NoError, built |-> built,
     sidecar |-> [written |-> TRUE,
                  file |-> MetadataFile(ExportDir(attrs.PackagePath),
                                        attrs.PackagePath),
                  Imports |-> deps.imports, Deps |-> deps.deps]]

\* compile after Deps returned deps: SaveMetadata writes the sidecar.
compileSaved(attrs, built, deps) ==
    IF deps.err # NoError
    THEN [exit |-> 1, err |-> deps.err, built |-> built, sidecar |-> NoSidecar]
    ELSE [exit |-> 0, err |-> NoError, built |-> built,
          sidecar |-> [written |-> TRUE,
                       file |-> MetadataFile(ExportDir(attrs.PackagePath),
                                             attrs.PackagePath),
                       Imports |-> deps.imports, Deps |-> deps.deps]]

\* compile after CompilePackage returned built.
compileBuilt(attrs, fs, built) ==
    IF built.err # NoError
    THEN [exit |-> 1, err |-> built.err, built |-> built, sidecar |-> NoSidecar]
    ELSE compileSaved(attrs, built, Deps(built.imports, fs))

\* compile(sdk): CompilePackage, then Deps, then SaveMetadata; any error is
\* fatal (exit status 1).
compile(attrs, fs, metaFiles, cores, failAt) ==
    compileBuilt(attrs, fs,
                 CompilePackage(attrs,
                                Join(LibDir(attrs.PackagePath),
                                     Base(attrs.PackagePath) \o ".a"),
                                Join(ExportDir(attrs.PackagePath),
                                     Base(attrs.PackagePath) \o ".x"),
                                metaFiles, cores, failAt))

(***************************************************************************)
(* link.go                                                                 *)
(***************************************************************************)
\* The loop of linkImportCfg with an unbound entry left out.
RECURSIVE LinkImportsSkipping(_, _, _, _)
LinkImportsSkipping(main, pkgs, i, imports) ==
    IF i > Len(main.Deps) THEN [imports |-> imports, err |-> NoError]
    ELSE LinkImportsSkipping(main, pkgs, i + 1,
            IF Lookup(pkgs, main.Deps[i]) # ""
            THEN Append(imports, Import(pkgs[main.Deps[i]], main.Deps[i]))
            ELSE imports)

\* The loop of linkImportCfg over main.Deps from position i on: an Import
\* per entry the table binds, an ImportError at the first it does not.
RECURSIVE LinkImportsFrom(_, _, _, _)
LinkImportsFrom(main, pkgs, i, imports) ==
    IF i > Len(main.Deps) THEN [imports |-> imports, err |-> NoError]
    ELSE IF Lookup(pkgs, main.Deps[i]) # ""
    THEN LinkImportsFrom(main, pkgs, i + 1,
                         Append(imports, Import(pkgs[main.Deps[i]], main.Deps[i])))
    ELSE [imports |-> <<>>, err |-> ImportError(main.Deps[i], main.ImportPath)]

\* What linkImportCfg returns when it fails.
LinkCfgFailed(pkgs, err) ==
    [cfgPath |-> "", written |-> FALSE, lines |-> <<>>, err |-> err, pkgs |-> pkgs]

\* The main package listed under the import path of its first dependency.
MainImportFirst(mainPath) == Import(mainPath, "a")

\* The entry linkImportCfg appends for the main package.
MainImport(mainPath) == Import(mainPath, "command-line-arguments")

\* linkImportCfg after the loop over main.Deps returned found.
LinkCfgScanned(mainPath, pkgs, found) ==
    IF found.err # NoError THEN LinkCfgFailed(pkgs, found.err)
    ELSE [cfgPath |-> Join(BuildDir, "importcfg.link"),
          written |-> TRUE,
          lines   |-> MapSeq(SortImports(Append(found.imports, MainImport(mainPath))),
                             LAMBDA pkg : PackageFileLine(pkg, ".a")),
          err |-> NoError, pkgs |-> pkgs]

\* linkImportCfg after ResolveMetaPackages(deps, nil) returned resolved.
LinkCfgResolved(main, mainPath, resolved) ==
    IF resolved.err # NoError THEN LinkCfgFailed(resolved.pkgs, resolved.err)
    ELSE LinkCfgScanned(mainPath, resolved.pkgs,
                        LinkImportsFrom(main, resolved.pkgs, 1, <<>>))

\* linkImportCfg(main, mainPath, deps).
linkImportCfg(main, mainPath, deps, metaFiles) ==
    LinkCfgResolved(main, mainPath, ResolveMetaPackages(deps, NilMap, metaFiles))

\* What an invocation of LinkPackage leaves behind.
LinkResult(err, cfg, calls) ==
    [err |-> err, pkgs |-> cfg.pkgs, cfgWritten |-> cfg.written,
     cfgLines |-> cfg.lines, calls |-> calls]

\* The linker command LinkPackage builds.
LinkerCall(main, storePath, out, extraArgs, cfgPath) ==
    ToolCall("link",
             <<ToolBin("link")>> \o extraArgs
               \o <<"-o", out, "-importcfg", cfgPath, "-buildmode", "exe",
                    storePath \o "/" \o Base(main.ImportPath) \o ".a">>,
             <<"CGO_ENABLED=0", "GOROOT=">>)

\* LinkPackage once the linker ran.
LinkRan(cfg, calls) ==
    LinkResult(IF AllOk(calls) THEN NoError ELSE OtherError("failed to link binary"),
               cfg, calls)

\* LinkPackage after linkImportCfg returned cfg.
LinkConfigured(main, storePath, out, extraArgs, failAt, cfg) ==
    IF cfg.err # NoError THEN LinkResult(cfg.err, cfg, <<>>)
    ELSE LinkRan(cfg, RunCalls(<<LinkerCall(main, storePath, out, extraArgs,
                                            cfg.cfgPath)>>, failAt))

\* Linkage.LinkPackage(out, extraArgs) for the main package main and the
\* table deps; failAt is the command that fails.
LinkPackage(main, deps, out, extraArgs, metaFiles, failAt) ==
    IF Lookup(deps, main.ImportPath) = ""
    THEN LinkResult(ImportError(main.ImportPath, main.ImportPath),
                    LinkCfgFailed(deps, NoError), <<>>)
    ELSE LinkConfigured(main, deps[main.ImportPath], out, extraArgs, failAt,
                        linkImportCfg(main, deps[main.ImportPath], deps, metaFiles))

NotLinked == [err |-> NoError, pkgs |-> EmptyMap, cfgWritten |-> FALSE,
              cfgLines |-> <<>>, calls |-> <<>>]

\* link after LinkPackage returned linked.
linkLinked(loaded, linked) ==
    [exit |-> IF linked.err # NoError THEN 1 ELSE 0, err |-> linked.err,
     main |-> loaded.pkg, linked |-> linked]

\* link after LoadMetadata returned loaded.
linkLoaded(attrs, outDir, metaFiles, failAt, loaded) ==
    IF loaded.err # NoError
    THEN [exit |-> 1, err |-> loaded.err, main |-> loaded.pkg, linked |-> NotLinked]
    ELSE linkLinked(loaded,
                    LinkPackage(loaded.pkg, attrs.Deps,
                                Join(Join(outDir, "bin"), attrs.Name),
                                attrs.LinkFlags, metaFiles, failAt))

\* link(sdk): LoadMetadata of the main package, then LinkPackage; any error
\* is fatal (exit status 1).
link(attrs, outDir, fs, metaFiles, failAt) ==
    linkLoaded(attrs, outDir, metaFiles, failAt,
               LoadMetadata(fs, attrs.Main, attrs.PackagePath))

\* The attributes buildGoBinary hands to the builder: main is the export
\* output of the main package, deps binds import paths to lib outputs.
StdLib == "/nix/store/std-obj-lib"

StdLibFile == Join(StdLib, "std.json")

DepsAttr(keys) == [q \in keys |-> IF q = "std" THEN StdLib ELSE LibDir(q)]

LinkAttrs(p, name, keys, flags) ==
    [PackagePath |-> p, Main |-> ExportDir(p), Name |-> name,
     Deps |-> DepsAttr(keys), LinkFlags |-> flags]

BinaryNames == {"prog"}

LinkFlagLists == {<<"-s">>}

\* The out output of the derivation of a binary.
OutDir(name) == "/nix/store/" \o name

\* What the lib output of std can hold when link reads it: no std.json, or
\* one that binds the packages built so far to their lib outputs.
StdLibOutputs(fs) ==
    {EmptyMap,
     StdLibFile :> MetaPackage(MapSeq(SortedKeys(BuiltPackages(fs)),
                                      LAMBDA q : Import(LibDir(q), q)),
                               EmptyMap)}

Idle == [phase |-> "idle"]

Unused == [phase |-> "unused"]

Init ==
    /\ store = EmptyMap
    /\ inv = Idle
    /\ res = Unused

\* The attributes buildGoLibrary hands to the builder.
Attrs(p, srcs, deps, withStd, importMap, embed, flags) ==
    [PackagePath |-> p, Srcs |-> srcs, Imports |-> ImportsAttr(deps, withStd),
     ImportMap |-> importMap, EmbedCfg |-> embed, CompileFlags |-> flags]

\* The usage text of the driver.
usage == "\nUsage: builder [command]\n\nCommands:\n  compile\n  link\n  stdlib"

\* The driver up to its dispatch: args are os.Args, sdkLoads tells whether
\* LoadSDK succeeds on the sdk attribute.  command is the sub-command main
\* hands over to, "" when log.Fatalf ends the process before any.
main(args, sdkLoads) ==
    IF Len(args) < 2
    THEN [command |-> "", exit |-> 1, log |-> "no subcommand provided\n" \o usage]
    ELSE IF ~sdkLoads
    THEN [command |-> "", exit |-> 1, log |-> "failed to load sdk"]
    ELSE IF args[2] \in {"compile", "link", "stdlib"}
    THEN [command |-> args[2], exit |-> 0, log |-> ""]
    ELSE [command |-> "", exit |-> 1,
          log |-> "unknown command \"" \o args[2] \o "\"\n" \o usage]

\* Command lines of the builder.
ArgLists ==
    {<<"builder">>, <<"builder", "">>, <<"builder", "build">>,
     <<"builder", "Compile">>, <<"builder", "build", "compile">>,
     <<"builder", "compile">>, <<"builder", "link">>, <<"builder", "stdlib">>}

\* One builder process runs "compile" for a package not yet in the store;
\* plan holds the commands the invocation runs if none of them fails.
Compile ==
    /\ inv.phase = "idle"
    /\ main(<<"builder", "compile">>, TRUE).command = "compile"
    /\ \E p \in PackagePaths \ BuiltPackages(store),
          srcs \in SrcLists,
          deps \in SUBSET BuiltPackages(store),
          withStd \in BOOLEAN,
          importMap \in ImportMaps,
          flags \in CompileFlagLists,
          embed \in EmbedCfgs,
          cores \in CoreSettings :
         \E metaFiles \in (IF withStd THEN StdOutputs(store) ELSE {EmptyMap}),
            attrs \in {Attrs(p, srcs, deps, withStd, importMap, embed, flags)} :
           \E plan \in {compile(attrs, store, metaFiles, cores, 0).built.calls} :
             \E failAt \in 0..Len(plan) :
               \E out \in {compile(attrs, store, metaFiles, cores, failAt)} :
                 /\ inv' = [phase |-> "exited", cmd |-> "compile", attrs |-> attrs,
                            files |-> store, metaFiles |-> metaFiles, cores |-> cores,
                            exit |-> out.exit, err |-> out.err, built |-> out.built,
                            sidecar |-> out.sidecar]
                 /\ store' = IF out.sidecar.written
                             THEN Put(store, out.sidecar.file,
                                      Sidecar(out.sidecar.Imports, out.sidecar.Deps))
                             ELSE store
    /\ UNCHANGED res

\* One builder process runs "link" for a main package.
Link ==
    /\ inv.phase = "idle"
    /\ main(<<"builder", "link">>, TRUE).command = "link"
    /\ \E p \in PackagePaths,
          name \in BinaryNames,
          keys \in SUBSET (PackagePaths \cup {"std"}),
          flags \in LinkFlagLists :
         \E metaFiles \in (IF "std" \in keys THEN StdLibOutputs(store) ELSE {EmptyMap}),
            attrs \in {LinkAttrs(p, name, keys, flags)} :
           \E plan \in {link(attrs, OutDir(name), store, metaFiles, 0).linked.calls} :
             \E failAt \in 0..Len(plan) :
               \E out \in {link(attrs, OutDir(name), store, metaFiles, failAt)} :
                 inv' = [phase |-> "exited", cmd |-> "link", attrs |-> attrs,
                         files |-> store, metaFiles |-> metaFiles,
                         exit |-> out.exit, err |-> out.err, main |-> out.main,
                         linked |-> out.linked]
    /\ UNCHANGED <<store, res>>

\* One builder process that log.Fatalf ends before any sub-command runs.
Refuse ==
    /\ inv.phase = "idle"
    /\ \E args \in ArgLists, sdkLoads \in BOOLEAN :
          \E out \in {main(args, sdkLoads)} :
            /\ out.command = ""
            /\ inv' = [phase |-> "exited", cmd |-> "", args |-> args,
                       sdkLoads |-> sdkLoads, exit |-> out.exit, log |-> out.log]
    /\ UNCHANGED <<store, res>>

\* The process is gone; the sandbox is ready for the next derivation.
Exit ==
    /\ inv.phase = "exited"
    /\ inv' = Idle
    /\ UNCHANGED <<store, res>>

Next == Compile \/ Link \/ Refuse \/ Exit

Spec == Init /\ [][Next]_vars

(***************************************************************************)
(* ResolveMetaPackages on its own: a table, an importMap and the content   *)
(* of the std output are drawn, and the function is applied once.          *)
(***************************************************************************)
MaxSubPackages == 2

ExplicitStorePaths == {"/nix/store/x1-export", "/nix/store/x2-export"}

SubStorePaths == {"/nix/store/x1-export", "/nix/store/m1-export"}

SubPackagePaths == {"a", "internal/poll"}

ImportTables ==
    {explicit @@ std :
        explicit \in PartialMaps(SubPackagePaths, ExplicitStorePaths),
        std \in {EmptyMap, "std" :> StdExport}}

\* Lists of sub-packages, each import path listed once.
SubPackageLists ==
    {subs \in UNION {[1..n -> [StorePath : SubStorePaths, ImportPath : SubPackagePaths]] :
                        n \in 0..MaxSubPackages} :
        \A i, j \in 1..Len(subs) : i # j => subs[i].ImportPath # subs[j].ImportPath}

StdContents ==
    {EmptyMap,
     StdFile :> [SubPackages |-> <<>>, ImportMap |-> EmptyMap, Malformed |-> TRUE]}
    \cup {StdFile :> MetaPackage(subs, m) :
            subs \in SubPackageLists,
            m \in PartialMaps({"a", "b"}, {"internal/poll"})}

InitResolve ==
    /\ store = EmptyMap
    /\ inv = Idle
    /\ \E pkgs \in ImportTables, importMap \in ImportMaps, fs \in StdContents :
          res = [phase |-> "input", pkgs |-> pkgs, importMap |-> importMap, fs |-> fs]

Resolve ==
    /\ res.phase = "input"
    /\ res' = [phase |-> "done", pkgs |-> res.pkgs, importMap |-> res.importMap,
               fs |-> res.fs,
               out |-> ResolveMetaPackages(res.pkgs, res.importMap, res.fs)]
    /\ UNCHANGED <<store, inv>>

NextResolve == Resolve

SpecResolve == InitResolve /\ [][NextResolve]_vars

(***************************************************************************)
(* BuildParallelism on its own: a value of NIX_BUILD_CORES is drawn, the   *)
(* function is applied and CompilePackage runs under that value.           *)
(***************************************************************************)
MaxCoresLen == 3

CoreChars == {"+", "-", "0", "3", "4", "x"}

RECURSIVE StringsUpTo(_, _)
StringsUpTo(chars, n) ==
    IF n = 0 THEN {""}
    ELSE LET shorter == StringsUpTo(chars, n - 1)
         IN  shorter \cup {s \o c : s \in shorter, c \in chars}

\* The values NIX_BUILD_CORES takes; unset reads as "".
CoresValues == StringsUpTo(CoreChars, MaxCoresLen)

\* A package of one native source without imports.
PlainAttrs == Attrs("a", <<"/src/p/w.go">>, {}, FALSE, NilMap, FALSE, <<"-std">>)

InitParallelism ==
    /\ store = EmptyMap
    /\ inv = Idle
    /\ \E cores \in CoresValues : res = [phase |-> "input", cores |-> cores]

Parallelism ==
    /\ res.phase = "input"
    /\ res' = [phase |-> "done", cores |-> res.cores,
               out |-> BuildParallelism(res.cores),
               built |-> CompilePackage(PlainAttrs, "/nix/store/a-lib/a.a",
                                        "/nix/store/a-export/a.x", EmptyMap,
                                        res.cores, 0)]
    /\ UNCHANGED <<store, inv>>

NextParallelism == Parallelism

SpecParallelism == InitParallelism /\ [][NextParallelism]_vars

(***************************************************************************)
(* sortSrcs on its own: a list of files of the source tree is drawn and    *)
(* the function is applied.                                                *)
(***************************************************************************)
MaxSortLen == 2

SortInputs == UNION {[1..n -> DOMAIN SourceTree] : n \in 0..MaxSortLen}

InitSortSrcs ==
    /\ store = EmptyMap
    /\ inv = Idle
    /\ \E srcs \in SortInputs : res = [phase |-> "input", srcs |-> srcs]

SortSrcs ==
    /\ res.phase = "input"
    /\ res' = [phase |-> "done", srcs |-> res.srcs, out |-> sortSrcs(res.srcs)]
    /\ UNCHANGED <<store, inv>>

NextSortSrcs == SortSrcs

SpecSortSrcs == InitSortSrcs /\ [][NextSortSrcs]_vars

(***************************************************************************)
(* The metadata files as encoding/json writes and reads them.  A slice is  *)
(* nil or a sequence; a file is a JSON object, a map from keys to values.  *)
(***************************************************************************)
NilSlice == [isNil |-> TRUE, elems |-> <<>>]

Slice(elems) == [isNil |-> FALSE, elems |-> elems]

\* Package.FromImport(path).
FromImport(path) == [ImportPath |-> path, Imports |-> NilSlice, Deps |-> NilSlice]

\* The characters of a JSON string literal for the character c: the encoder
\* escapes the quote, the backslash and, for HTML safety, <, > and &.
EscapeChar(c) ==
    IF c = "\"" THEN "\\\""
    ELSE IF c = "\\" THEN "\\\\"
    ELSE IF c = "<" THEN "\\u003c"
    ELSE IF c = ">" THEN "\\u003e"
    ELSE IF c = "&" THEN "\\u0026"
    ELSE c

RECURSIVE EscapeFrom(_, _)
EscapeFrom(s, i) ==
    IF i > Len(s) THEN "" ELSE EscapeChar(CharAt(s, i)) \o EscapeFrom(s, i + 1)

EscapeString(s) == EscapeFrom(s, 1)

\* The character a \uXXXX escape stands for.
UnicodeChar(hex) ==
    IF hex = "003c" THEN "<"
    ELSE IF hex = "003e" THEN ">"
    ELSE IF hex = "0026" THEN "&"
    ELSE "?"

RECURSIVE UnescapeFrom(_, _)
UnescapeFrom(lit, i) ==
    IF i > Len(lit) THEN ""
    ELSE IF CharAt(lit, i) # "\\" THEN CharAt(lit, i) \o UnescapeFrom(lit, i + 1)
    ELSE IF CharAt(lit, i + 1) = "u"
    THEN UnicodeChar(SubSeq(lit, i + 2, i + 5)) \o UnescapeFrom(lit, i + 6)
    ELSE CharAt(lit, i + 1) \o UnescapeFrom(lit, i + 2)

\* The string a JSON string literal stands for, with the escapes kept.
KeepEscapes(lit) == lit

\* The string a JSON string literal stands for.
UnescapeString(lit) == UnescapeFrom(lit, 1)

\* The JSON value of a []string: null for nil, else an array of literals.
EncodeSlice(slice) ==
    IF slice.isNil THEN [type |-> "null", items |-> <<>>]
    ELSE [type |-> "array", items |-> MapSeq(slice.elems, EscapeString)]

\* json.Encoder.Encode of a Package: ImportPath carries the tag "-".
EncodePackage(pkg) ==
    "Imports" :> EncodeSlice(pkg.Imports) @@ "Deps" :> EncodeSlice(pkg.Deps)

\* Decoding a JSON value into a []string field: null leaves it as it is.
DecodeSlice(slice, value) ==
    IF value.type = "null" THEN slice
    ELSE Slice(MapSeq(value.items, UnescapeString))

\* json.Decoder.Decode into the Package pkg: a key the object lacks leaves
\* the field as it is, and no key reaches ImportPath.
DecodePackage(pkg, object) ==
    [ImportPath |-> pkg.ImportPath,
     Imports |-> IF "Imports" \in DOMAIN object
                 THEN DecodeSlice(pkg.Imports, object["Imports"]) ELSE pkg.Imports,
     Deps    |-> IF "Deps" \in DOMAIN object
                 THEN DecodeSlice(pkg.Deps, object["Deps"]) ELSE pkg.Deps]

\* SaveMetadata(dir, pkg) on the files fs.
SaveMetadata(fs, dir, pkg) ==
    Put(fs, MetadataFile(dir, pkg.ImportPath), EncodePackage(pkg))

\* LoadMetadata[Package](dir, importPath) on the files fs.
LoadPackage(fs, dir, importPath) ==
    IF MetadataFile(dir, importPath) \in DOMAIN fs
    THEN [pkg |-> DecodePackage(FromImport(importPath),
                                fs[MetadataFile(dir, importPath)]),
          err |-> NoError]
    ELSE [pkg |-> FromImport(importPath),
          err |-> OtherError("failed to read package metadata")]

MaxListLen == 2

MetadataPaths == {"a", "internal/poll", "x/poll"}

\* The nil list and the lists of up to MaxListLen paths.
Slices == {NilSlice} \cup
          {Slice(elems) : elems \in UNION {[1..n -> {"a", "a<b>", "x&y"}] : n \in 0..MaxListLen}}

MetadataDir == "/nix/store/m-export"

InitMetadata ==
    /\ store = EmptyMap
    /\ inv = Idle
    /\ \E pkg \in [ImportPath : MetadataPaths, Imports : Slices, Deps : Slices] : res = [phase |-> "input", pkg |-> pkg]

\* SaveMetadata(dir, pkg) into an empty output directory.
Save ==
    /\ res.phase = "input"
    /\ res' = [phase |-> "saved", pkg |-> res.pkg,
               fs |-> SaveMetadata(EmptyMap, MetadataDir, res.pkg)]
    /\ UNCHANGED <<store, inv>>

\* LoadMetadata(dir, importPath) by a later process.
Load ==
    /\ res.phase = "saved"
    /\ \E importPath \in MetadataPaths :
          res' = [phase |-> "loaded", pkg |-> res.pkg, fs |-> res.fs,
                  importPath |-> importPath,
                  out |-> LoadPackage(res.fs, MetadataDir, importPath)]
    /\ UNCHANGED <<store, inv>>

NextMetadata == Save \/ Load

SpecMetadata == InitMetadata /\ [][NextMetadata]_vars

(***************************************************************************)
(* Properties                                                              *)
(***************************************************************************)
Exited == inv.phase = "exited" /\ inv.cmd = "compile"

Succeeded == Exited /\ inv.exit = 0

StrictlyAscending(seq) ==
    \A i \in 1..(Len(seq) - 1) : Compare(seq[i], seq[i + 1]) < 0

\* The sidecar the invocation found for its direct import dep.
ImportSidecar(dep) == inv.files[MetadataFile(dep.StorePath, dep.ImportPath)]

DirectImports == Range(inv.built.imports)

\* The sidecar of a built package in the store.
SidecarOf(packagePath) == store[MetadataFile(ExportDir(packagePath), packagePath)]

\* C1: the Deps a successful compile writes to the sidecar of its package is
\* the ascending list of exactly the direct imports of the scan result and
\* the Deps of the sidecar of each direct import.
C1_DepsIsUnion ==
    Succeeded =>
        /\ inv.sidecar.written
        /\ store[inv.sidecar.file].Deps = inv.sidecar.Deps
        /\ StrictlyAscending(inv.sidecar.Deps)
        /\ Range(inv.sidecar.Deps) =
               {dep.ImportPath : dep \in DirectImports}
               \cup UNION {Range(ImportSidecar(dep).Deps) : dep \in DirectImports}

\* A successful compile one of whose direct imports brings in a package that
\* is not itself a direct import.
C1_Witness ==
    /\ Succeeded
    /\ \E dep \in DirectImports :
         \E sub \in Range(ImportSidecar(dep).Deps) :
            sub \notin {d.ImportPath : d \in DirectImports}

\* The packages reachable from packagePath through the Imports of the
\* sidecars in the store, in at most n steps.
RECURSIVE ReachableIn(_, _)
ReachableIn(packagePath, n) ==
    IF n = 0 THEN {}
    ELSE LET direct == Range(SidecarOf(packagePath).Imports)
         IN  direct \cup UNION {ReachableIn(q, n - 1) : q \in direct}

\* C2: in every sidecar of the store, Deps holds every entry of Imports and,
\* for every direct import q, q and every entry of Deps(q); Deps is the set
\* of packages reachable through Imports.
C2_DepsClosed ==
    \A p \in BuiltPackages(store) :
        /\ Range(SidecarOf(p).Imports) \subseteq Range(SidecarOf(p).Deps)
        /\ \A q \in Range(SidecarOf(p).Imports) :
              /\ q \in BuiltPackages(store)
              /\ q \in Range(SidecarOf(p).Deps)
              /\ Range(SidecarOf(q).Deps) \subseteq Range(SidecarOf(p).Deps)
        /\ Range(SidecarOf(p).Deps) = ReachableIn(p, Cardinality(PackagePaths))

\* A stored sidecar whose Deps go beyond its Imports.
C2_Witness ==
    \E p \in BuiltPackages(store) :
        /\ SidecarOf(p).Imports # <<>>
        /\ Range(SidecarOf(p).Deps) # Range(SidecarOf(p).Imports)

\* C3: the Imports and the Deps of every sidecar compile writes are strictly
\* ascending by import path.
C3_SidecarsStrictlyAscending ==
    Succeeded =>
        /\ StrictlyAscending(inv.sidecar.Imports)
        /\ StrictlyAscending(inv.sidecar.Deps)

\* C4: runtime/cgo and unsafe are in neither the Imports nor the Deps of any
\* sidecar compile writes.
C4_NoInternalPackages ==
    Succeeded =>
        {"runtime/cgo", "unsafe"}
            \cap (Range(inv.sidecar.Imports) \cup Range(inv.sidecar.Deps)) = {}

\* The import paths the enabled native sources of the invocation declare.
NativeImports ==
    UNION {Range(SourceTree[src].imports) : src \in Range(inv.built.sorted.goSrcs)}

CountLines(lines, Matches(_)) == Cardinality({i \in 1..Len(lines) : Matches(lines[i])})

\* C5: for a native import p the importMap sends to q, the compile
\* importconfig has exactly one line "importmap p=q", exactly one
\* "packagefile q=<store path of q>/<basename of q>.x" line and no
\* "packagefile p=" line, also when q is imported directly as well.
C5_OneLinePerRewrite ==
    (Exited /\ inv.built.cfgWritten) =>
        \A p \in NativeImports :
            LET q == Lookup(inv.built.importMap.kv, p)
            IN  q # "" =>
                  /\ CountLines(inv.built.cfgLines,
                                LAMBDA l : l = "importmap " \o p \o "=" \o q) = 1
                  /\ CountLines(inv.built.cfgLines,
                                LAMBDA l : HasPrefix(l, "packagefile " \o q \o "=")) = 1
                  /\ CountLines(inv.built.cfgLines,
                                LAMBDA l : l = "packagefile " \o q \o "="
                                                 \o inv.built.pkgs[q] \o "/"
                                                 \o Base(q) \o ".x") = 1
                  /\ CountLines(inv.built.cfgLines,
                                LAMBDA l : HasPrefix(l, "packagefile " \o p \o "=")) = 0

\* The table and the importMap on which ResolveMetaPackages succeeded.
ResolvedStd ==
    /\ res.phase = "done"
    /\ "std" \in DOMAIN res.pkgs
    /\ res.out.err = NoError

\* C6: after ResolveMetaPackages succeeds on a table with the key std, the
\* key std is gone, every other key of the table keeps its store path, every
\* sub-package not in the table is bound to the store path the meta package
\* gives it, and the table has no other key.
C6_AdditiveOverride ==
    ResolvedStd =>
        LET subs == res.fs[StdFile].SubPackages
        IN  /\ "std" \notin DOMAIN res.out.pkgs
            /\ \A k \in DOMAIN res.pkgs \ {"std"} :
                  k \in DOMAIN res.out.pkgs /\ res.out.pkgs[k] = res.pkgs[k]
            /\ \A i \in 1..Len(subs) :
                  subs[i].ImportPath \notin DOMAIN res.pkgs =>
                      Lookup(res.out.pkgs, subs[i].ImportPath) = subs[i].StorePath
            /\ DOMAIN res.out.pkgs =
                  (DOMAIN res.pkgs \ {"std"}) \cup {subs[i].ImportPath : i \in 1..Len(subs)}

\* A resolution where the meta package lists a key of the table under another
\* store path and also brings a sub-package the table lacks.
C6_Witness ==
    /\ ResolvedStd
    /\ \E i, j \in 1..Len(res.fs[StdFile].SubPackages) :
         LET subs == res.fs[StdFile].SubPackages
         IN  /\ subs[i].ImportPath \in DOMAIN res.pkgs
             /\ subs[i].StorePath # res.pkgs[subs[i].ImportPath]
             /\ subs[j].ImportPath \notin DOMAIN res.pkgs

\* C7: in the merged importMap an alias of the caller's map keeps the
\* caller's target, and an alias only the meta package has takes the meta
\* package's target.
C7_CallerAliasWins ==
    (ResolvedStd /\ ~res.importMap.isNil) =>
        LET metaMap == res.fs[StdFile].ImportMap
        IN  /\ \A k \in DOMAIN res.importMap.kv :
                  Lookup(res.out.importMap.kv, k) = res.importMap.kv[k]
            /\ \A k \in DOMAIN metaMap \ DOMAIN res.importMap.kv :
                  Lookup(res.out.importMap.kv, k) = metaMap[k]

\* C8: with no importMap attribute and a meta package that carries an import
\* map, a native import equal to one of its aliases is rewritten and the
\* importconfig records the "importmap" line.
C8_MetaRewritesWithoutImportMap ==
    (/\ Exited
     /\ inv.attrs.ImportMap.isNil
     /\ StdFile \in DOMAIN inv.metaFiles
     /\ inv.built.cfgWritten) =>
        \A p \in NativeImports \cap DOMAIN inv.metaFiles[StdFile].ImportMap :
            \E i \in 1..Len(inv.built.cfgLines) :
                inv.built.cfgLines[i] =
                    "importmap " \o p \o "=" \o inv.metaFiles[StdFile].ImportMap[p]

\* The imports of the enabled native sources that, filtered and rewritten,
\* have no binding in the resolved table: pairs of file and resolved path.
Rewritten(importPath) ==
    IF Lookup(inv.built.importMap.kv, importPath) # ""
    THEN inv.built.importMap.kv[importPath] ELSE importPath

MissingImports ==
    {<<src, Rewritten(p)>> : <<src, p>> \in
        {<<src, p>> \in Range(inv.built.sorted.goSrcs) \X NativeImports :
            /\ p \in Range(SourceTree[src].imports)
            /\ p \notin {"runtime/cgo", "unsafe"}
            /\ Rewritten(p) \notin DOMAIN inv.built.pkgs}}

ResolutionFailed ==
    inv.err.kind \in {"failed to read meta package", "failed to read std"}

\* C9: when an import of an enabled native source has, after filtering and
\* rewriting, no binding in the resolved table, compile fails with an
\* ImportError that carries such a path and a file that imports it, exits
\* non-zero, and writes no importconfig, runs no tool and writes no sidecar.
C9_MissingImportFails ==
    (Exited /\ ~inv.built.sorted.fatal /\ ~ResolutionFailed /\ MissingImports # {}) =>
        /\ inv.err.kind = "ImportError"
        /\ <<inv.err.Parent, inv.err.Import>> \in MissingImports
        /\ inv.exit # 0
        /\ ~inv.built.cfgWritten
        /\ inv.built.calls = <<>>
        /\ ~inv.sidecar.written
        /\ store = inv.files

\* A failed compile whose missing import is the target of a rewrite.
C9_Witness ==
    /\ Exited
    /\ inv.err.kind = "ImportError"
    /\ inv.err.Import \notin NativeImports
    /\ Cardinality(DOMAIN inv.built.pkgs) > 0

ForwardDeclPackages ==
    {"bytes", "internal/poll", "net", "os", "runtime/metrics", "runtime/pprof",
     "runtime/trace", "sync", "syscall", "time"}

CompilerCalls == {c \in Range(inv.built.calls) : c.tool = "compile"}

\* C10: the compiler arguments hold -complete exactly when there is no
\* assembly source and the package is none of the forward-declaration
\* packages, and hold -symabis and -asmhdr exactly when there is an assembly
\* source.
C10_CompleteFlag ==
    Exited =>
        \A c \in CompilerCalls :
            /\ "-complete" \in Range(c.args) <=>
                  (/\ inv.built.sorted.sSrcs = <<>>
                   /\ inv.attrs.PackagePath \notin ForwardDeclPackages)
            /\ "-symabis" \in Range(c.args) <=> inv.built.sorted.sSrcs # <<>>
            /\ "-asmhdr" \in Range(c.args) <=> inv.built.sorted.sSrcs # <<>>

\* The compiler runs for a forward-declaration package without assembly.
C10_Witness ==
    /\ Exited
    /\ CompilerCalls # {}
    /\ inv.attrs.PackagePath \in ForwardDeclPackages
    /\ inv.built.sorted.sSrcs = <<>>

\* The position of the first occurrence of flag in args, or 0.
ArgIndex(args, flag) ==
    IF \E i \in 1..Len(args) : args[i] = flag
    THEN CHOOSE i \in 1..Len(args) : args[i] = flag /\ \A j \in 1..(i - 1) : args[j] # flag
    ELSE 0

\* The argument that follows flag.
ArgAfter(args, flag) == args[ArgIndex(args, flag) + 1]

\* The sources of an assembler call: what follows the value of "-o".
AsmSources(c) == SubSeq(c.args, ArgIndex(c.args, "-o") + 2, Len(c.args))

\* The objects of an archiver call: what follows "r" and the archive.
PackObjects(c) == SubSeq(c.args, 4, Len(c.args))

IsSymabisCall(c, sSrcs) ==
    /\ c.tool = "asm"
    /\ "-gensymabis" \in Range(c.args)
    /\ AsmSources(c) = sSrcs
    /\ ArgAfter(c.args, "-o") = Join(BuildDir, "symabis")

\* C11: with assembly sources, the commands of a compile invocation are a
\* prefix of: the assembler with -gensymabis over all assembly sources
\* writing symabis, the compiler reading that symabis, one assembler call
\* per assembly source, one archiver call; a successful invocation runs them
\* all, and the archiver appends one distinct object per assembly source,
\* each written by one of the assembler calls before it.
C11_AssemblyOrder ==
    (Exited /\ inv.built.sorted.sSrcs # <<>>) =>
        LET sSrcs == inv.built.sorted.sSrcs
            calls == inv.built.calls
            n     == Len(sSrcs)
        IN  /\ Len(calls) <= n + 3
            /\ \A k \in 1..(Len(calls) - 1) : calls[k].ok
            /\ inv.exit = 0 => (Len(calls) = n + 3 /\ calls[n + 3].ok)
            /\ Len(calls) >= 1 => IsSymabisCall(calls[1], sSrcs)
            /\ Len(calls) >= 2 =>
                  /\ calls[2].tool = "compile"
                  /\ ArgAfter(calls[2].args, "-symabis") = Join(BuildDir, "symabis")
            /\ \A i \in 1..n :
                  Len(calls) >= 2 + i =>
                      /\ calls[2 + i].tool = "asm"
                      /\ "-gensymabis" \notin Range(calls[2 + i].args)
                      /\ AsmSources(calls[2 + i]) = <<sSrcs[i]>>
            /\ Len(calls) = n + 3 =>
                  LET objs == PackObjects(calls[n + 3])
                  IN  /\ calls[n + 3].tool = "pack"
                      /\ Len(objs) = n
                      /\ \A i \in 1..n : objs[i] = ArgAfter(calls[2 + i].args, "-o")
                      /\ \A i, j \in 1..n : i # j => objs[i] # objs[j]

ParallelismDone == res.phase = "done" /\ "cores" \in DOMAIN res

AllDigits(s) == Len(s) > 0 /\ \A i \in 1..Len(s) : IsDigit(CharAt(s, i))

\* The number a string of decimal digits denotes.
RECURSIVE Numeral(_)
Numeral(s) ==
    IF Len(s) = 0 THEN 0
    ELSE 10 * Numeral(SubSeq(s, 1, Len(s) - 1))
           + (CHOOSE d \in 0..9 : CharAt("0123456789", d + 1) = CharAt(s, Len(s)))

\* An optional sign followed by at least one decimal digit.
IsNumeric(s) ==
    \/ AllDigits(s)
    \/ Len(s) > 1 /\ CharAt(s, 1) \in {"+", "-"} /\ AllDigits(SubSeq(s, 2, Len(s)))

\* C12: BuildParallelism gives 1 for an unset or empty NIX_BUILD_CORES, the
\* detected CPU count for "0", n for a string of decimal digits that denotes
\* n, and is fatal for a value that is not numeric.
C12_CoresMapping ==
    ParallelismDone =>
        /\ res.cores = "" => (~res.out.fatal /\ res.out.val = 1)
        /\ res.cores = "0" => (~res.out.fatal /\ res.out.val = NumCPU)
        /\ (AllDigits(res.cores) /\ res.cores # "0") =>
              (~res.out.fatal /\ res.out.val = Numeral(res.cores))
        /\ (res.cores # "" /\ ~IsNumeric(res.cores)) => res.out.fatal

\* BuildParallelism was applied to "4".
C12_Witness == ParallelismDone /\ res.cores = "4" /\ res.out.val = 4

\* C13: for every value of NIX_BUILD_CORES BuildParallelism is fatal or
\* returns an integer that is at least 1, and the "-c" argument of the
\* compiler is never zero or negative.
C13_PositiveOrFatal ==
    ParallelismDone =>
        /\ res.out.fatal \/ res.out.val >= 1
        /\ \A c \in Range(res.built.calls) :
              c.tool = "compile" =>
                  LET arg == ArgAfter(c.args, "-c")
                  IN  AllDigits(arg) /\ Numeral(arg) >= 1

LinkExited == inv.phase = "exited" /\ inv.cmd = "link"

LinkSucceeded == LinkExited /\ inv.exit = 0

\* The position of the first "=" of a line.
EqualsIndex(l) == CHOOSE i \in 1..Len(l) :
                     CharAt(l, i) = "=" /\ \A j \in 1..(i - 1) : CharAt(l, j) # "="

\* The import path of a "packagefile" line and the file it names.
LineImportPath(l) == SubSeq(l, Len("packagefile ") + 1, EqualsIndex(l) - 1)

LineFile(l) == SubSeq(l, EqualsIndex(l) + 1, Len(l))

Sentinel == "command-line-arguments"

\* C14: the importconfig of a successful link has one "packagefile" line per
\* entry of the Deps of the main package, of the form
\* "packagefile <importPath>=<deps[importPath]>/<basename(importPath)>.a",
\* and one line for command-line-arguments; the lines ascend by import path
\* and no other binding of the table has a line.
C14_LinkImportCfg ==
    LinkSucceeded =>
        LET lines == inv.linked.cfgLines
            deps  == Range(inv.main.Deps)
        IN  /\ inv.linked.cfgWritten
            /\ \A l \in Range(lines) : HasPrefix(l, "packagefile ")
            /\ Len(lines) = Cardinality(deps) + 1
            /\ \A d \in deps :
                  CountLines(lines, LAMBDA l : LineImportPath(l) = d) = 1
                  /\ \E l \in Range(lines) :
                        l = "packagefile " \o d \o "=" \o inv.linked.pkgs[d] \o "/"
                              \o Base(d) \o ".a"
            /\ CountLines(lines, LAMBDA l : LineImportPath(l) = Sentinel) = 1
            /\ StrictlyAscending(MapSeq(lines, LineImportPath))
            /\ {LineImportPath(l) : l \in Range(lines)} = deps \cup {Sentinel}

\* A successful link whose main package has dependencies on both sides of
\* command-line-arguments and whose table binds more than those.
C14_Witness ==
    /\ LinkSucceeded
    /\ {"a", "internal/poll"} \subseteq Range(inv.main.Deps)
    /\ DOMAIN inv.linked.pkgs \ Range(inv.main.Deps) # {}

\* C15: the command-line-arguments line of the link importconfig names the
\* archive of the main package, <store path>/<basename(packagePath)>.a, the
\* file the linker gets as its positional argument.
C15_SentinelIsMainArchive ==
    (LinkExited /\ inv.linked.cfgWritten) =>
        \A l \in Range(inv.linked.cfgLines) :
            LineImportPath(l) = Sentinel =>
                /\ LineFile(l) = inv.attrs.Deps[inv.attrs.PackagePath] \o "/"
                                    \o Base(inv.attrs.PackagePath) \o ".a"
                /\ \A c \in Range(inv.linked.calls) :
                      c.tool = "link" => c.args[Len(c.args)] = LineFile(l)

\* The table of the link invocation after meta-package resolution.
LinkTable == ResolveMetaPackages(inv.attrs.Deps, NilMap, inv.metaFiles)

MainLoaded ==
    MetadataFile(inv.attrs.Main, inv.attrs.PackagePath) \in DOMAIN inv.files

\* The entries of the Deps of the main package the resolved table lacks.
MissingDeps == {d \in Range(inv.main.Deps) : Lookup(LinkTable.pkgs, d) = ""}

C17_OwnPathNotRequired ==
    (/\ LinkExited
     /\ MainLoaded
     /\ LinkTable.err = NoError
     /\ MissingDeps = {}) =>
        /\ inv.err.kind # "ImportError"
        /\ inv.linked.cfgWritten
        /\ \E c \in Range(inv.linked.calls) : c.tool = "link"

SortDone == res.phase = "done" /\ "srcs" \in DOMAIN res

\* How often x occurs in seq.
Occurrences(seq, x) == Cardinality({i \in 1..Len(seq) : seq[i] = x})

Ascending(seq) == \A i \in 1..(Len(seq) - 1) : Compare(seq[i], seq[i + 1]) <= 0

\* C18: sortSrcs is fatal exactly when an enabled file has an extension
\* other than .go, .h and .s; otherwise every enabled file is in the list of
\* its extension as often as in the input, a disabled file is in no list,
\* and each list is ascending.
C18_SortSrcs ==
    SortDone =>
        LET out == res.out
        IN  /\ out.fatal <=>
                  \E src \in Range(res.srcs) :
                      /\ SourceTree[src].enabled
                      /\ ~HasSuffix(src, ".go") /\ ~HasSuffix(src, ".h")
                      /\ ~HasSuffix(src, ".s")
            /\ ~out.fatal =>
                  /\ \A src \in DOMAIN SourceTree :
                        /\ Occurrences(out.goSrcs, src) =
                              (IF SourceTree[src].enabled /\ HasSuffix(src, ".go")
                               THEN Occurrences(res.srcs, src) ELSE 0)
                        /\ Occurrences(out.hSrcs, src) =
                              (IF SourceTree[src].enabled /\ HasSuffix(src, ".h")
                               THEN Occurrences(res.srcs, src) ELSE 0)
                        /\ Occurrences(out.sSrcs, src) =
                              (IF SourceTree[src].enabled /\ HasSuffix(src, ".s")
                               THEN Occurrences(res.srcs, src) ELSE 0)
                  /\ Ascending(out.goSrcs)
                  /\ Ascending(out.hSrcs)
                  /\ Ascending(out.sSrcs)

\* sortSrcs drops a disabled file that has none of the three extensions and
\* keeps the enabled file listed with it.
C18_Witness ==
    /\ SortDone
    /\ ~res.out.fatal
    /\ \E src \in Range(res.srcs) : ~SourceTree[src].enabled /\ HasSuffix(src, ".c")
    /\ Len(res.out.goSrcs) + Len(res.out.hSrcs) + Len(res.out.sSrcs) = 1

\* C19: LoadMetadata(dir, pkg.ImportPath) after SaveMetadata(dir, pkg)
\* succeeds and returns the Imports and the Deps of pkg with ImportPath set
\* to the path asked for, and the file holds Imports and Deps only.
C19_MetadataRoundTrip ==
    /\ (res.phase \in {"saved", "loaded"} /\ "pkg" \in DOMAIN res) =>
          /\ DOMAIN res.fs = {MetadataDir \o "/" \o Base(res.pkg.ImportPath) \o ".json"}
          /\ \A file \in DOMAIN res.fs : DOMAIN res.fs[file] = {"Imports", "Deps"}
    /\ (res.phase = "loaded" /\ "pkg" \in DOMAIN res
          /\ res.importPath = res.pkg.ImportPath) =>
          /\ res.out.err = NoError
          /\ res.out.pkg.ImportPath = res.importPath
          /\ res.out.pkg.Imports = res.pkg.Imports
          /\ res.out.pkg.Deps = res.pkg.Deps

\* A round trip of a package whose lists hold characters the encoder
\* escapes, one list being nil.
C19_Witness ==
    /\ res.phase = "loaded" /\ "pkg" \in DOMAIN res
    /\ res.importPath = res.pkg.ImportPath
    /\ res.pkg.Imports.elems = <<"a<b>", "x&y">>
    /\ res.pkg.Deps.isNil
    /\ res.out.pkg.Imports.elems = <<"a<b>", "x&y">>

\* An invocation that ended in main before any sub-command ran.
Refused == inv.phase = "exited" /\ inv.cmd = ""

\* C20: an invocation whose first argument is missing or is none of
\* compile, link and stdlib prints the usage text and exits non-zero without
\* running a sub-command, whether or not the sdk attribute names a loadable
\* toolchain.
C20_UsageOnBadCommand ==
    (Refused /\ (Len(inv.args) < 2 \/ inv.args[2] \notin {"compile", "link", "stdlib"})) =>
        /\ inv.exit # 0
        /\ HasSuffix(inv.log, usage)

(***************************************************************************)
(* BuildDir() over the calls of one process.  buildDir is the package      *)
(* variable, "" until the first call; made is what os.MkdirTemp returns,   *)
(* "" standing for its error.                                              *)
(***************************************************************************)
BuildDirFresh(buildDir, made) ==
    IF made = ""
    THEN [fatal |-> TRUE, buildDir |-> buildDir, created |-> {}, out |-> ""]
    ELSE [fatal |-> FALSE, buildDir |-> made, created |-> {made}, out |-> made]

BuildDirCall(buildDir, made) ==
    IF buildDir # ""
    THEN [fatal |-> FALSE, buildDir |-> buildDir, created |-> {}, out |-> buildDir]
    ELSE IF made = ""
    THEN [fatal |-> TRUE, buildDir |-> buildDir, created |-> {}, out |-> ""]
    ELSE [fatal |-> FALSE, buildDir |-> made, created |-> {made}, out |-> made]

MaxCalls == 4

\* The names os.MkdirTemp(os.TempDir(), "builder") can pick.
TempNames == {BuildDir, "/build/builder1", "/build/builder2", "/build/builder3"}

\* A process starts with buildDir unset, beside the directories of others.
InitBuildDir ==
    /\ store = EmptyMap
    /\ inv = Idle
    /\ \E temp \in SUBSET TempNames :
          res = [phase |-> "running", buildDir |-> "", temp |-> temp,
                 created |-> {}, returned |-> <<>>]

\* One call of BuildDir(); os.MkdirTemp picks a name that does not exist.
CallBuildDir ==
    /\ res.phase = "running"
    /\ Len(res.returned) < MaxCalls
    /\ \E made \in (TempNames \ res.temp) \cup {""} :
          \E call \in {BuildDirCall(res.buildDir, made)} :
            res' = [phase |-> IF call.fatal THEN "fatal" ELSE "running",
                    buildDir |-> call.buildDir,
                    temp |-> res.temp \cup call.created,
                    created |-> res.created \cup call.created,
                    returned |-> IF call.fatal THEN res.returned
                                 ELSE Append(res.returned, call.out)]
    /\ UNCHANGED <<store, inv>>

SpecBuildDir == InitBuildDir /\ [][CallBuildDir]_vars

\* C21: over the BuildDir calls of one process at most one temporary
\* directory is created and every call returns the path of the first call.
C21_BuildDirOnce ==
    "returned" \in DOMAIN res =>
        /\ Cardinality(res.created) <= 1
        /\ \A i \in 1..Len(res.returned) :
              /\ res.returned[i] = res.returned[1]
              /\ res.created = {res.returned[i]}

\* Three calls have returned and one directory exists beside an older one.
C21_Witness ==
    /\ "returned" \in DOMAIN res
    /\ Len(res.returned) >= 3
    /\ res.created = {"/build/builder1"}
    /\ res.temp = {BuildDir, "/build/builder1"}

\* The pieces of s between the occurrences of the character sep.
RECURSIVE SplitFrom(_, _, _, _)
SplitFrom(s, sep, i, piece) ==
    IF i > Len(s) THEN <<piece>>
    ELSE IF CharAt(s, i) = sep THEN <<piece>> \o SplitFrom(s, sep, i + 1, "")
    ELSE SplitFrom(s, sep, i + 1, piece \o CharAt(s, i))

\* The directories of the sources of the invocation.
SrcDirs == {Dir(inv.attrs.Srcs[i]) : i \in 1..Len(inv.attrs.Srcs)}

\* C22: the -trimpath value of the compiler is a semicolon-separated list:
\* one <srcDir>=><importPath> entry per distinct directory of the sources,
\* then <buildDir>=> exactly when there are assembly sources, then <outDir>=>.
C22_TrimPathOrder ==
    Exited =>
        \A c \in CompilerCalls :
            LET entries == SplitFrom(ArgAfter(c.args, "-trimpath"), ";", 1, "")
                n       == Cardinality(SrcDirs)
                asm     == IF inv.built.sorted.sSrcs # <<>> THEN 1 ELSE 0
            IN  /\ Len(entries) = n + asm + 1
                /\ {entries[i] : i \in 1..n}
                     = {dir \o "=>" \o inv.attrs.PackagePath : dir \in SrcDirs}
                /\ asm = 1 => entries[n + 1] = BuildDir \o "=>"
                /\ entries[n + asm + 1] = LibDir(inv.attrs.PackagePath) \o "=>"

(***************************************************************************)
(* One compile invocation on its own, over inputs that make each of its    *)
(* steps fail: a source sortSrcs rejects, a std output without std.json,   *)
(* an import without binding, a failing tool, a bound import whose store   *)
(* path holds no sidecar.                                                  *)
(***************************************************************************)
StepSrcLists ==
    {srcs \in UNION {[1..n -> {"/src/p/w.go", "/src/p/x.go", "/src/p/n.go", "/src/p/f.s",
                                "/src/p/c.c"}] :
                        n \in 1..MaxSrcs} :
        \A i, j \in 1..Len(srcs) : i # j => srcs[i] # srcs[j]}

\* The store holding the sidecars of the packages in built.
StoreOf(built) ==
    [file \in {MetadataFile(ExportDir(q), q) : q \in built} |-> Sidecar(<<>>, <<>>)]

InitCompileSteps ==
    /\ store = EmptyMap
    /\ inv = Idle
    /\ \E srcs \in StepSrcLists, deps \in SUBSET {"a", "internal/poll"},
          built \in SUBSET {"a", "internal/poll"}, withStd \in BOOLEAN :
         \E metaFiles \in (IF withStd THEN StdOutputs(StoreOf(built)) ELSE {EmptyMap}) :
            res = [phase |-> "input",
                   attrs |-> Attrs("unsafe", srcs, deps, withStd, MkMap(EmptyMap),
                                   FALSE, <<>>),
                   fs |-> StoreOf(built), metaFiles |-> metaFiles]

\* The invocation runs; the tool call failAt of its plan fails (0: none).
CompileSteps ==
    /\ res.phase = "input"
    /\ "attrs" \in DOMAIN res
    /\ \E plan \in {compile(res.attrs, res.fs, res.metaFiles, "", 0).built.calls} :
         \E failAt \in 0..Len(plan) :
           \E out \in {compile(res.attrs, res.fs, res.metaFiles, "", failAt)} :
             res' = [phase |-> "done", attrs |-> res.attrs, fs |-> res.fs,
                     metaFiles |-> res.metaFiles, failAt |-> failAt,
                     compiled |-> out,
                     after |-> IF out.sidecar.written
                               THEN Put(res.fs, out.sidecar.file,
                                        Sidecar(out.sidecar.Imports, out.sidecar.Deps))
                               ELSE res.fs]
    /\ UNCHANGED <<store, inv>>

SpecCompileSteps == InitCompileSteps /\ [][CompileSteps]_vars

StepsDone == res.phase = "done" /\ "compiled" \in DOMAIN res

\* Every command of the invocation ran and succeeded: the compiler alone, or
\* with assembly sources the symabis run, the compiler, one assembler run
\* per source and the archiver.
AllToolsRan(built) ==
    /\ AllOk(built.calls)
    /\ Len(built.calls) = IF built.sorted.sSrcs # <<>>
                          THEN Len(built.sorted.sSrcs) + 3 ELSE 1
    /\ \E i \in 1..Len(built.calls) : built.calls[i].tool = "compile"
    /\ built.sorted.sSrcs # <<>> => built.calls[Len(built.calls)].tool = "pack"

\* The store path of every direct import holds its sidecar.
AllImportsLoad(built, fs) ==
    \A i \in 1..Len(built.imports) :
        MetadataFile(built.imports[i].StorePath, built.imports[i].ImportPath) \in DOMAIN fs

\* C23: a compile invocation writes the sidecar, and exits with status 0,
\* exactly when source classification, meta-package resolution, the import
\* scan, every tool run and the loading of every direct import's sidecar
\* succeeded; otherwise it exits non-zero and the store is as it was.
C23_SidecarAfterAllSteps ==
    StepsDone =>
        LET built == res.compiled.built
            ok    == /\ ~built.sorted.fatal
                     /\ built.err = NoError
                     /\ ("std" \in DOMAIN res.attrs.Imports => StdFile \in DOMAIN res.metaFiles)
                     /\ built.cfgWritten
                     /\ AllToolsRan(built)
                     /\ AllImportsLoad(built, res.fs)
        IN  /\ res.compiled.sidecar.written <=> ok
            /\ res.compiled.exit = 0 <=> ok
            /\ ~ok => res.after = res.fs
            /\ ok => DOMAIN res.after = DOMAIN res.fs \cup {res.compiled.sidecar.file}

\* Every tool ran, the archiver included, and the invocation still fails:
\* the store path of a direct import holds no sidecar.
C23_Witness ==
    /\ StepsDone
    /\ res.compiled.built.sorted.sSrcs # <<>>
    /\ AllToolsRan(res.compiled.built)
    /\ ~AllImportsLoad(res.compiled.built, res.fs)
    /\ ~res.compiled.sidecar.written
    /\ res.compiled.exit # 0

\* The environment of the driver in SpecParallelism, as far as the model
\* follows it: NIX_BUILD_CORES when it is set to a non-empty value.
DriverEnv == IF res.cores = "" THEN {} ELSE {"NIX_BUILD_CORES=" \o res.cores}

\* C24: the environment of the compiler process is the environment of the
\* driver with CGO_ENABLED set to 0; every other variable is passed on.
C24_EnvInherited ==
    ParallelismDone =>
        \A i \in 1..Len(res.built.calls) :
            res.built.calls[i].tool = "compile" =>
                Range(res.built.calls[i].env) = DriverEnv \cup {"CGO_ENABLED=0"}

(***************************************************************************)
(* LoadSDK on its own: the output of "go version" is drawn and LoadSDK is  *)
(* applied to it.                                                          *)
(***************************************************************************)
\* strings.Fields(s): the maximal runs of characters that are not white space.
RECURSIVE FieldsFrom(_, _, _)
FieldsFrom(s, i, field) ==
    IF i > Len(s) THEN (IF field = "" THEN <<>> ELSE <<field>>)
    ELSE IF CharAt(s, i) \in {" ", "\n", "\t"}
    THEN (IF field = "" THEN <<>> ELSE <<field>>) \o FieldsFrom(s, i + 1, "")
    ELSE FieldsFrom(s, i + 1, field \o CharAt(s, i))

\* GoSDK.ShortVersion(): the version up to its last dot.
ShortVersion(version) ==
    IF LastIndex(version, ".") = 0 THEN version
    ELSE SubSeq(version, 1, LastIndex(version, ".") - 1)

\* GoSDK.compilerVersion() after "go version" printed the fields: the test
\* len(fields) < 3 && fields[0] != "go" && fields[1] != "version" is
\* evaluated left to right, and an index past the end of fields panics.
compilerVersion(fields) ==
    IF Len(fields) >= 3
    THEN [kind |-> "ok",
          version |-> IF HasPrefix(fields[3], "go")
                      THEN SubSeq(fields[3], 3, Len(fields[3])) ELSE fields[3]]
    ELSE IF Len(fields) = 0 THEN [kind |-> "panic", version |-> ""]
    ELSE IF fields[1] = "go" THEN [kind |-> "panic", version |-> ""]
    ELSE IF Len(fields) = 1 THEN [kind |-> "panic", version |-> ""]
    ELSE IF fields[2] # "version" THEN [kind |-> "error", version |-> ""]
    ELSE [kind |-> "panic", version |-> ""]

\* LoadSDK(path, compat) when "go version" prints output, or fails to run.
LoadSDK(path, compat, output, runs) ==
    LET parsed == IF runs THEN compilerVersion(FieldsFrom(output, 1, ""))
                  ELSE [kind |-> "error", version |-> ""]
    IN  IF parsed.kind # "ok" THEN [kind |-> parsed.kind, sdk |-> <<>>]
        ELSE [kind |-> "ok",
              sdk |-> [Path |-> path, Version |-> parsed.version,
                       CompatVersion |-> IF compat = ""
                                         THEN "go" \o ShortVersion(parsed.version)
                                         ELSE compat]]

MaxFields == 3

\* The fields an output line is made of, joined by single or double spaces.
RECURSIVE JoinFields(_, _)
JoinFields(fields, i) ==
    IF i > Len(fields) THEN "\n"
    ELSE (IF i = 1 THEN "" ELSE IF i = 2 THEN " " ELSE "  ")
           \o fields[i] \o JoinFields(fields, i + 1)

InitLoadSDK ==
    /\ store = EmptyMap
    /\ inv = Idle
    /\ \E n \in 0..MaxFields :
         \E fields \in [1..n -> {"go", "version", "go1.23.5", "devel", "linux/amd64"}] :
            res = [phase |-> "input", output |-> JoinFields(fields, 1)]

\* main calls LoadSDK(attrs.SDK, attrs.GoCompatVersion).
CallLoadSDK ==
    /\ res.phase = "input"
    /\ "output" \in DOMAIN res
    /\ \E runs \in BOOLEAN, compat \in {"", "go1.21"} :
          res' = [phase |-> "done", output |-> res.output, runs |-> runs,
                  compat |-> compat,
                  loaded |-> LoadSDK(SDK.Path, compat, res.output, runs)]
    /\ UNCHANGED <<store, inv>>

SpecLoadSDK == InitLoadSDK /\ [][CallLoadSDK]_vars

SDKDone == res.phase = "done" /\ "loaded" \in DOMAIN res

\* The output is at least three fields, the first two being go and version.
WellFormed(output) ==
    LET fields == FieldsFrom(output, 1, "")
    IN  Len(fields) >= 3 /\ fields[1] = "go" /\ fields[2] = "version"

\* C25: LoadSDK returns an error, and neither panics nor returns a handle,
\* whenever the output of "go version" is not of the form
\* go version <version> ... with at least three fields.
C25_MalformedVersionIsError ==
    (SDKDone /\ res.runs /\ ~WellFormed(res.output)) => res.loaded.kind = "error"

\* An exited compile or link invocation.
BuildExited == inv.phase = "exited" /\ inv.cmd \in {"compile", "link"}

\* The commands the invocation ran.
CallsRun == IF inv.cmd = "compile" THEN inv.built.calls ELSE inv.linked.calls

\* The files a command writes: the outputs its arguments name.
WrittenBy(c) ==
    IF c.tool = "compile"
    THEN {ArgAfter(c.args, "-o"), ArgAfter(c.args, "-linkobj")}
           \cup (IF "-asmhdr" \in Range(c.args) THEN {ArgAfter(c.args, "-asmhdr")} ELSE {})
    ELSE IF c.tool = "pack" THEN {c.args[3]}
    ELSE {ArgAfter(c.args, "-o")}

\* The files the invocation wrote: the import configuration, the aliases of
\* the headers, the outputs of its commands and the sidecar.
InvocationWrites ==
    UNION {WrittenBy(CallsRun[i]) : i \in 1..Len(CallsRun)}
      \cup {ArgAfter(CallsRun[i].args, "-importcfg") :
               i \in {j \in 1..Len(CallsRun) : CallsRun[j].tool \in {"compile", "link"}}}
      \cup (IF inv.cmd = "compile"
            THEN {Join(BuildDir, base) : base \in DOMAIN inv.built.links}
                   \cup (IF inv.sidecar.written THEN {inv.sidecar.file} ELSE {})
            ELSE {})

\* The output directories the derivation of the invocation declares.
OwnOutputs ==
    IF inv.cmd = "compile"
    THEN {LibDir(inv.attrs.PackagePath), ExportDir(inv.attrs.PackagePath)}
    ELSE {OutDir(inv.attrs.Name)}

\* The store paths the invocation was given: its imports or deps, the main
\* package, and what the meta packages among them expand to.
InputStorePaths ==
    IF inv.cmd = "compile"
    THEN {inv.attrs.Imports[q] : q \in DOMAIN inv.attrs.Imports}
           \cup {inv.built.pkgs[q] : q \in DOMAIN inv.built.pkgs}
    ELSE {inv.attrs.Main}
           \cup {inv.attrs.Deps[q] : q \in DOMAIN inv.attrs.Deps}
           \cup {inv.linked.pkgs[q] : q \in DOMAIN inv.linked.pkgs}

Under(path, dir) == path = dir \/ HasPrefix(path, dir \o "/")

\* C26: a compile or link invocation writes only under its own output
\* directories and its build directory, never under the store path of an
\* import or dep, and leaves every sidecar it found in the store unchanged.
C26_InputsReadOnly ==
    BuildExited =>
        /\ \A w \in InvocationWrites :
              /\ \E dir \in OwnOutputs \cup {BuildDir} : Under(w, dir)
              /\ \A dir \in InputStorePaths : ~Under(w, dir)
        /\ \A file \in DOMAIN inv.files :
              file \in DOMAIN store /\ store[file] = inv.files[file]

\* A compile with assembly sources and imports succeeds beside the sidecars
\* of earlier invocations and adds its own.
C26_Witness ==
    /\ Succeeded
    /\ inv.built.sorted.sSrcs # <<>>
    /\ inv.built.imports # <<>>
    /\ DOMAIN inv.files # {}
    /\ DOMAIN store = DOMAIN inv.files \cup {inv.sidecar.file}
    /\ inv.sidecar.file \notin DOMAIN inv.files

\* The import paths the enabled .go sources of the invocation declare.
StepNativeImports ==
    UNION {Range(SourceTree[src].imports) :
             src \in {s \in Range(res.attrs.Srcs) : SourceTree[s].enabled /\ Ext(s) = ".go"}}

\* The same paths without runtime/cgo and unsafe and then rewritten through
\* the import map the invocation ended up with.
StepReferenced ==
    {IF Lookup(res.compiled.built.importMap.kv, p) # ""
     THEN res.compiled.built.importMap.kv[p] ELSE p :
        p \in StepNativeImports \ {"runtime/cgo", "unsafe"}}

\* C27: the packagefile lines of the compile importconfig and the Imports of
\* the sidecar name exactly the import paths the enabled native sources
\* reference, filtered and rewritten; a binding of the table no source
\* imports, explicit or from a meta package, has no line and no entry.
C27_OnlyReferencedImports ==
    (StepsDone /\ res.compiled.built.cfgWritten) =>
        /\ {LineImportPath(l) :
              l \in {m \in Range(res.compiled.built.cfgLines) : HasPrefix(m, "packagefile ")}}
             = StepReferenced
        /\ res.compiled.sidecar.written =>
              Range(res.compiled.sidecar.Imports) = StepReferenced

\* A sidecar is written for sources that, after rewriting, reference
\* internal/poll alone while the table also binds a, explicitly and through
\* the meta package, and a disabled source imports a.
C27_Witness ==
    /\ StepsDone
    /\ res.compiled.sidecar.written
    /\ "/src/p/n.go" \in Range(res.attrs.Srcs)
    /\ StepReferenced = {"internal/poll"}
    /\ {"a", "internal/poll"} \subseteq DOMAIN res.compiled.built.pkgs
    /\ "std" \in DOMAIN res.attrs.Imports
    /\ "a" \in DOMAIN res.attrs.Imports

(***************************************************************************)
(* The headers of a package: a list of header files is drawn, with or      *)
(* without an assembly source beside them, and CompilePackage runs.        *)
(***************************************************************************)
MaxHeaders == 2

HeaderLists ==
    {hdrs \in UNION {[1..n -> {src \in DOMAIN SourceTree : Ext(src) = ".h"}] :
                        n \in 0..MaxHeaders} :
        \A i, j \in 1..Len(hdrs) : i # j => hdrs[i] # hdrs[j]}

InitHeaders ==
    /\ store = EmptyMap
    /\ inv = Idle
    /\ \E hdrs \in HeaderLists, sSrcs \in {<<>>, <<"/src/p/f.s">>} :
          res = [phase |-> "input", hdrs |-> hdrs, sSrcs |-> sSrcs]

\* symlinkArchHeaders on the drawn list, and CompilePackage of a package
\* made of the headers and the assembly source.
CompileHeaders ==
    /\ res.phase = "input"
    /\ "hdrs" \in DOMAIN res
    /\ \E attrs \in {Attrs("a", res.hdrs \o res.sSrcs, {}, FALSE, NilMap, FALSE, <<>>)} :
         \E failAt \in 0..Len(CompilePackage(attrs, "/nix/store/a-lib/a.a",
                                             "/nix/store/a-export/a.x", EmptyMap,
                                             "", 0).calls) :
            res' = [phase |-> "done", hdrs |-> res.hdrs, sSrcs |-> res.sSrcs,
                    symlinks |-> symlinkArchHeaders(res.hdrs, {"importcfg", "go_asm.h"}),
                    built |-> CompilePackage(attrs, "/nix/store/a-lib/a.a",
                                             "/nix/store/a-export/a.x", EmptyMap,
                                             "", failAt)]
    /\ UNCHANGED <<store, inv>>

SpecHeaders == InitHeaders /\ [][CompileHeaders]_vars

HeadersDone == res.phase = "done" /\ "hdrs" \in DOMAIN res

\* The alias the rules give a header: the first of _<os>_<arch>.h,
\* _<os>.h and _<arch>.h its base name ends in decides; "" when none does.
RuleAlias(path) ==
    LET base == Base(path)
        Swap(suffix, generic) == SubSeq(base, 1, Len(base) - Len(suffix)) \o generic
    IN  IF HasSuffix(base, "_linux_amd64.h") THEN Swap("_linux_amd64.h", "_GOOS_GOARCH.h")
        ELSE IF HasSuffix(base, "_linux.h") THEN Swap("_linux.h", "_GOOS.h")
        ELSE IF HasSuffix(base, "_amd64.h") THEN Swap("_amd64.h", "_GOARCH.h")
        ELSE ""

\* The aliases in links that point at the header.
AliasesOf(links, header) == {base \in DOMAIN links : links[base] = header}

\* C28: symlinkArchHeaders creates at most one alias per header, the one the
\* first matching rule names, and none for a header no rule matches; when it
\* succeeds every header a rule matches has its alias; and an assembler runs
\* only after go_asm.h and every alias exist.
C28_HeaderAliases ==
    HeadersDone =>
        /\ \A h \in Range(res.hdrs) :
              /\ Cardinality(AliasesOf(res.symlinks.links, h)) <= 1
              /\ AliasesOf(res.symlinks.links, h) \subseteq {RuleAlias(h)} \ {""}
              /\ (res.symlinks.err = NoError /\ RuleAlias(h) # "") =>
                    AliasesOf(res.symlinks.links, h) = {RuleAlias(h)}
        /\ (\E i \in 1..Len(res.built.calls) : res.built.calls[i].tool = "asm") =>
              /\ Join(BuildDir, "go_asm.h") \in res.built.touched
              /\ \A h \in Range(res.hdrs) :
                    AliasesOf(res.built.links, h) = {RuleAlias(h)} \ {""}

\* Two headers beside an assembly source, one ending in _<os>_<arch>.h and
\* one in _<arch>.h: the assembler ran and both aliases exist.
C28_Witness ==
    /\ HeadersDone
    /\ \E i \in 1..Len(res.built.calls) : res.built.calls[i].tool = "asm"
    /\ Range(res.hdrs) = {"/src/p/impl_linux_amd64.h", "/src/p/impl_amd64.h"}
    /\ DOMAIN res.built.links = {"impl_GOOS_GOARCH.h", "impl_GOARCH.h"}

(***************************************************************************)
(* Composition: libraries built by buildGoLibrary, each from libraries     *)
(* built before it and without the std meta package, and binaries linked   *)
(* by buildGoBinary.  libs maps the packagePath of a library to the keys   *)
(* of its deps attribute; fs holds the sidecars.                           *)
(***************************************************************************)
\* The deps of a library that lists only its direct imports.
MergedDepsDirect(libs, imports) == imports

\* mergedDeps of buildGoLibrary: each import with its own deps.
MergedDeps(libs, imports) == imports \cup UNION {libs[q] : q \in imports}

InitCompose ==
    /\ store = EmptyMap
    /\ inv = Idle
    /\ res = [phase |-> "composing", libs |-> EmptyMap, fs |-> EmptyMap,
              main |-> "", linked |-> NotLinked, exit |-> 0, err |-> NoError]

\* buildGoLibrary of a package over libraries built before; the derivation
\* exists once its compile invocation succeeded.
BuildLibrary ==
    /\ res.phase = "composing"
    /\ \E p \in PackagePaths \ DOMAIN res.libs, srcs \in SrcLists,
          imports \in SUBSET DOMAIN res.libs, importMap \in ImportMaps :
         \E out \in {compile(Attrs(p, srcs, imports, FALSE, importMap, FALSE, <<>>),
                             res.fs, EmptyMap, "", 0)} :
            /\ out.exit = 0
            /\ res' = [res EXCEPT
                          !.libs = Put(@, p, MergedDeps(res.libs, imports)),
                          !.fs = Put(@, out.sidecar.file,
                                     Sidecar(out.sidecar.Imports, out.sidecar.Deps))]
    /\ UNCHANGED <<store, inv>>

\* buildGoBinary of a built main package: deps is main.deps with main itself.
LinkBinary ==
    /\ res.phase = "composing"
    /\ \E p \in DOMAIN res.libs, failAt \in 0..1 :
         \E out \in {link(LinkAttrs(p, "prog", res.libs[p] \cup {p}, <<>>),
                          OutDir("prog"), res.fs, EmptyMap, failAt)} :
            res' = [res EXCEPT !.main = p, !.linked = out.linked, !.exit = out.exit,
                               !.err = out.err]
    /\ UNCHANGED <<store, inv>>

NextCompose == BuildLibrary \/ LinkBinary

SpecCompose == InitCompose /\ [][NextCompose]_vars

Composed == res.phase = "composing" /\ res.main # ""

\* C29: for libraries built through buildGoLibrary and a binary linked
\* through buildGoBinary, without the std meta package, the deps handed to
\* link bind the main package and every entry of the Deps of its sidecar,
\* and the link invocation does not end in an ImportError.
C29_LinkDepsCover ==
    Composed =>
        /\ res.main \in DOMAIN res.linked.pkgs
        /\ Range(res.fs[MetadataFile(ExportDir(res.main), res.main)].Deps)
              \subseteq DOMAIN res.linked.pkgs
        /\ res.err.kind # "ImportError"
        /\ res.linked.cfgWritten

\* A binary is linked whose sidecar Deps hold a package that main does not
\* import directly.
C29_Witness ==
    /\ Composed
    /\ res.exit = 0
    /\ \E q \in Range(res.fs[MetadataFile(ExportDir(res.main), res.main)].Deps) :
          q \notin Range(res.fs[MetadataFile(ExportDir(res.main), res.main)].Imports)

(***************************************************************************)
(* Two compile invocations whose attributes differ by the order of srcs.   *)
(***************************************************************************)
\* The lists that hold the entries of srcs in another order.
Reorderings(srcs) ==
    {[i \in 1..Len(srcs) |-> srcs[f[i]]] :
        f \in {g \in [1..Len(srcs) -> 1..Len(srcs)] :
                 \A i, j \in 1..Len(srcs) : i # j => g[i] # g[j]}}

InitPermuted ==
    /\ store = EmptyMap
    /\ inv = Idle
    /\ \E srcs \in SrcLists, deps \in SUBSET {"a", "internal/poll"},
          importMap \in ImportMaps :
         \E permuted \in Reorderings(srcs) :
            res = [phase |-> "input", srcs |-> srcs, permuted |-> permuted,
                   deps |-> deps, importMap |-> importMap]

\* Both invocations run against the same store.
CompilePermuted ==
    /\ res.phase = "input"
    /\ "permuted" \in DOMAIN res
    /\ \E fs \in {StoreOf({"a", "internal/poll"})} :
          res' = [phase |-> "done", srcs |-> res.srcs, permuted |-> res.permuted,
                  first |-> compile(Attrs("unsafe", res.srcs, res.deps, FALSE,
                                          res.importMap, FALSE, <<>>),
                                    fs, EmptyMap, "", 0),
                  second |-> compile(Attrs("unsafe", res.permuted, res.deps, FALSE,
                                           res.importMap, FALSE, <<>>),
                                     fs, EmptyMap, "", 0)]
    /\ UNCHANGED <<store, inv>>

SpecPermuted == InitPermuted /\ [][CompilePermuted]_vars

PermutedDone == res.phase = "done" /\ "permuted" \in DOMAIN res

\* C30: two compile invocations that differ only in the order of srcs
\* classify the sources into the same lists, write the same importconfig
\* and the same sidecar Imports and Deps, or fail alike.
C30_SrcsOrderIrrelevant ==
    PermutedDone =>
        /\ res.first.built.sorted = res.second.built.sorted
        /\ res.first.built.cfgWritten = res.second.built.cfgWritten
        /\ res.first.built.cfgLines = res.second.built.cfgLines
        /\ res.first.exit = res.second.exit
        /\ res.first.sidecar = res.second.sidecar

\* Two sources with different imports, given in both orders, and a sidecar
\* with imports is written.
C30_Witness ==
    /\ PermutedDone
    /\ res.srcs = <<"/src/q/y.go", "/src/p/x.go">>
    /\ res.permuted = <<"/src/p/x.go", "/src/q/y.go">>
    /\ res.first.sidecar.written
    /\ Len(res.first.sidecar.Imports) >= 2

====
